---- MODULE Spec2Model ----
(***************************************************************************)
(* Model of mcp-hfspace: the progress notifier, the call loop of           *)
(* EndpointWrapper (two snapshots of endpoint_wrapper.ts), endpoint         *)
(* resolution and file-path validation.                                     *)
(***************************************************************************)
EXTENDS Integers, Sequences, FiniteSets, TLC

VARIABLES
    \* progress_notifier.ts
    lastProgress,   \* let lastProgress
    emitted,        \* progress values handed to server.notification, in order
    fed,            \* stages of the status events passed to notify, in order
    token,          \* the progressToken of the request / of notify
    \* file-path validation
    snapshot,       \* which snapshot of endpoint_wrapper.ts is running
    cwd,            \* process.cwd() / WorkingDirectory.directory (segments)
    candidate,      \* the filePath handed to validation
    verdict,        \* what validation did with it
    \* endpoint resolution
    configuredPath, \* createEndpoint's argument, split at "/"
    api,            \* the discovery response of view_api()
    wrapper,        \* what createEndpoint returned or threw
    submitted,      \* the calls of client.submit, in order
    \* one tool call
    endpoint,       \* this.endpoint: parameters and returns; the designator
    request,        \* request.params: name and arguments
    pc,             \* "ready", "streaming" (inside for await) or "done"
    result,         \* handleToolCall: let result (and the msg.data it came from)
    seen,           \* what the stream has delivered so far
    outcome,        \* what EndpointWrapper.call returned or threw
    response,       \* what the call-tool handler returned or threw
    \* result conversion
    config,         \* config.claudeDesktopMode and config.debug
    faults,         \* per output slot: what fetch and the file writes do
    blocks,         \* convertPredictResults: const content, so far
    \* concurrent tool calls
    notifiers,      \* the closures createProgressNotifier has created: the
                    \* lastProgress of each
    calls,          \* the handleToolCall activations in progress
    \* schema conversion (gradio_convert.ts)
    revision,       \* which snapshot of gradio_convert.ts is running
    parameter,      \* the ApiParameter handed to convertParameter
    property,       \* what convertParameter returned
    schema,         \* what convertApiToSchema(endpoint) returned
    \* server startup and the request handlers (index.ts)
    spacePaths,     \* config.spacePaths, each with the discovery response
                    \* its space gives
    loaded,         \* how many of them the initialisation loop has taken
    endpoints,      \* const endpoints = new Map(), in insertion order
    logged,         \* the paths console.error reported, in order
    phase,          \* "loading", "serving" or "aborted"
    tools,          \* what the list-tools handler returned last
    dispatched      \* the wrapper the call-tool handler looked up last

nvars == <<lastProgress, emitted, fed, token>>
pvars == <<snapshot, cwd, candidate, verdict>>
rvars == <<configuredPath, api, wrapper, submitted>>
cvars == <<endpoint, request, pc, result, seen, outcome, response>>
kvars == <<config, faults, blocks>>
mvars == <<notifiers, calls>>
svars == <<revision, parameter, property, schema>>
tvars == <<spacePaths, loaded, endpoints, logged, phase, tools, dispatched>>
xvars == <<kvars, mvars, svars, tvars>>
vars  == <<nvars, pvars, rvars, cvars, xvars>>

(***************************************************************************)
(* Bounds                                                                  *)
(***************************************************************************)
MaxEvents == 3      \* status events fed to one notifier
MaxIndex  == 3      \* progress_data[0].index ranges over -1..MaxIndex
MaxLength == 4      \* progress_data[0].length ranges over 0..MaxLength
MaxSegs   == 2      \* segments of a candidate path
MaxNamed  == 3      \* named endpoints of a discovery response
MaxUnnamed == 2     \* unnamed endpoints of a discovery response
MaxCalls  == 1      \* calls submitted on one resolved wrapper
MaxStream == 3      \* events one submission stream delivers
MaxArgs   == 2      \* entries of request.params.arguments
MaxReturns == 2     \* return descriptors of the endpoint under conversion
MaxConcurrent == 2  \* tool calls in progress at the same time
MaxDelivered == 3   \* status events delivered to the concurrent calls
MaxPaths  == 2      \* configured space paths
MaxFed    == 2      \* status events handed to the notifier under SpecFeed
MaxParams == 3      \* parameters of the endpoint handed to convertApiToSchema

(***************************************************************************)
(* JavaScript numbers: finite integers, NaN, +Infinity, -Infinity          *)
(***************************************************************************)
Fin(n)  == [k |-> "fin", v |-> n]
NaN     == [k |-> "nan", v |-> 0]
PosInf  == [k |-> "inf", v |-> 1]
NegInf  == [k |-> "inf", v |-> -1]

\* a >= b on JS numbers (false whenever a NaN is involved)
NumGeq(a, b) ==
    IF a.k = "nan" \/ b.k = "nan" THEN FALSE
    ELSE IF a.k = "inf" /\ a.v = 1 THEN TRUE
    ELSE IF b.k = "inf" /\ b.v = -1 THEN TRUE
    ELSE IF a.k = "inf" \/ b.k = "inf" THEN FALSE
    ELSE a.v >= b.v

\* a === b on JS numbers (NaN is not equal to itself)
NumEq(a, b) == a.k # "nan" /\ b.k # "nan" /\ a = b

\* Math.max(a, b)
MathMax(a, b) ==
    IF a.k = "nan" \/ b.k = "nan" THEN NaN
    ELSE IF NumGeq(a, b) THEN a ELSE b

\* Math.min(a, b)
MathMin(a, b) ==
    IF a.k = "nan" \/ b.k = "nan" THEN NaN
    ELSE IF NumGeq(a, b) THEN b ELSE a

\* a + 1
NumInc(a) == IF a.k = "fin" THEN Fin(a.v + 1) ELSE a

\* floor(n / d) for any non-zero d
FloorDiv(n, d) == IF d > 0 THEN n \div d ELSE (0 - n) \div (0 - d)

\* Math.round(10 + (index / (length - 1)) * 80): round half up of a rational
StepProgress(index, length) ==
    LET d == length - 1 IN
    IF d = 0
    THEN IF index = 0 THEN NaN ELSE IF index > 0 THEN PosInf ELSE NegInf
    ELSE Fin(FloorDiv(2 * (10 * d + 80 * index) + d, 2 * d))

(***************************************************************************)
(* Status events                                                           *)
(***************************************************************************)
Stages == {"pending", "generating", "complete", "error", "streaming"}

\* progress_data: absent or empty ("none"), first item without numeric
\* index/length ("nonnum"), or first item {index, length} ("item")
NoProgressData == [kind |-> "none", index |-> 0, length |-> 0]
\* a tracker reporting index = length once its nine steps are done
NineOfNine == [kind |-> "item", index |-> 9, length |-> 9]
ProgressData ==
    {NoProgressData, [kind |-> "nonnum", index |-> 0, length |-> 0],
     NineOfNine}
    \cup [kind : {"item"}, index : -1..MaxIndex, length : 0..MaxLength]

\* position: -1 stands for undefined
StatusEvents ==
    [stage : Stages, queue : BOOLEAN, position : {-1, 0, 1}, pd : ProgressData,
     message : {"", "boom"}]

\* progressToken values: undefined, a string, or a number (its decimal text)
NoToken == [kind |-> "undefined", text |-> ""]
Tokens ==
    {NoToken, [kind |-> "string", text |-> ""],
     [kind |-> "string", text |-> "tok"], [kind |-> "number", text |-> "0"],
     [kind |-> "number", text |-> "7"]}

\* a guard that takes every token as present
TruthyAlways(t) == TRUE

\* JS truthiness of a token
Truthy(t) ==
    CASE t.kind = "undefined" -> FALSE
      [] t.kind = "string"    -> t.text # ""
      [] OTHER                -> t.text # "0"

(***************************************************************************)
(* progress_notifier.ts                                                    *)
(***************************************************************************)
\* lines 19-43: the value computed before monotonicity enforcement
computedProgress(status, last) ==
    IF status.pd.kind # "none"
    THEN IF status.pd.kind = "item"
         THEN StepProgress(status.pd.index, status.pd.length)
         ELSE last
    ELSE CASE status.stage = "pending" ->
                 IF status.queue
                 THEN (IF status.position = 0 THEN Fin(10) ELSE Fin(5))
                 ELSE Fin(15)
           [] status.stage = "generating" -> Fin(50)
           [] status.stage = "complete"   -> Fin(100)
           [] status.stage = "error"      -> last
           [] OTHER                       -> last

\* lines 45-50: monotonicity enforcement and the stalled-bar bump
enforceMonotonic(status, progress, last) ==
    LET m == MathMax(progress, last) IN
    IF status.stage = "complete" THEN Fin(100)
    ELSE IF NumEq(m, last) /\ NumGeq(last, Fin(75))
         THEN MathMin(Fin(99), NumInc(last))
         ELSE m

\* createNotification: the progress put in the notification (and stored)
createNotification(status, last) ==
    enforceMonotonic(status, computedProgress(status, last), last)

sharedProgressNotifier(heap) ==
    IF heap = <<>> THEN [heap |-> <<Fin(0)>>, ref |-> 1]
    ELSE [heap |-> heap, ref |-> 1]

\* createProgressNotifier: a new closure with its own let lastProgress = 0;
\* heap lists the lastProgress of every closure created so far
createProgressNotifier(heap) ==
    [heap |-> Append(heap, Fin(0)), ref |-> Len(heap) + 1]

(***************************************************************************)
(* File-path validation: validateFilePath (endpoint_wrapper.ts) and        *)
(* WorkingDirectory.validatePath (working_directory.ts)                    *)
(***************************************************************************)
Snapshots == {"endpoint_wrapper.ts", "part_002"}

\* A path is a sequence of segment names; a name is a string of characters.
SegNames == {"w", "w2", "a"}
SegChars(s) ==
    CASE s = "w"      -> <<"w">>
      [] s = "w2"     -> <<"w", "2">>
      [] s = "a"      -> <<"a">>
      [] s = "file:"  -> <<"f", ":">>
      [] s = "file:." -> <<"f", ":", ".">>
      [] OTHER        -> <<"?">>

\* the candidate string: an optional scheme, then an absolute or relative path
Schemes == {"", "http://", "https://", "file://", "file:./"}
Seqs(S, n) == UNION {[1..k -> S] : k \in 0..n}
Candidates ==
    [scheme : {"", "file://", "file:./"}, abs : BOOLEAN,
     segs : Seqs(SegNames \cup {"..", "."}, MaxSegs)]
    \cup [scheme : {"http://", "https://"}, abs : {FALSE}, segs : {<<"a">>}]
NoCandidate == [scheme |-> "", abs |-> FALSE, segs |-> <<>>]

\* filePath.startsWith("http://") || filePath.startsWith("https://")
IsUrl(c) == c.scheme \in {"http://", "https://"}

\* the files fs.access finds
Existing ==
    {<<>>, <<"w">>, <<"w", "a">>, <<"w", "w2">>, <<"w2">>, <<"w2", "a">>,
     <<"a">>, <<"w", "a", "a">>, <<"w", "a", "w">>}
Roots == {<<>>, <<"w">>, <<"w", "a">>}

\* path.normalize(path.resolve(...)): fold "." and ".." over the base
RECURSIVE Fold(_, _)
Fold(base, segs) ==
    IF segs = <<>> THEN base
    ELSE LET h == Head(segs) IN
         Fold(IF h = "." THEN base
              ELSE IF h = ".."
                   THEN (IF base = <<>> THEN base
                         ELSE SubSeq(base, 1, Len(base) - 1))
                   ELSE Append(base, h),
              Tail(segs))

\* path.resolve of a schemeless path
Resolve(abs, segs, dir) == Fold(IF abs THEN <<>> ELSE dir, segs)

\* the normalized path as a string (a sequence of characters)
RECURSIVE Join(_)
Join(segs) ==
    IF segs = <<>> THEN <<>>
    ELSE <<"/">> \o SegChars(Head(segs)) \o Join(Tail(segs))
PathString(segs) == IF segs = <<>> THEN <<"/">> ELSE Join(segs)

\* String.prototype.startsWith
StartsWith(str, prefix) ==
    /\ Len(prefix) <= Len(str)
    /\ SubSeq(str, 1, Len(prefix)) = prefix

\* endpoint_wrapper.ts resolves the string as it is: "file:..." is a
\* relative path whose first segment is "file:" (or "file:.")
resolveRaw(c, dir) ==
    IF c.scheme = "" THEN Resolve(c.abs, c.segs, dir)
    ELSE Resolve(FALSE,
                 <<IF c.scheme = "file://" THEN "file:" ELSE "file:.">>
                     \o c.segs, dir)

\* working_directory.ts strips a leading file:// or file:./ first
resolveStripped(c, dir) == Resolve(c.abs, c.segs, dir)

resolved(snap, c, dir) ==
    IF snap = "part_002" THEN resolveStripped(c, dir) ELSE resolveRaw(c, dir)

\* normalizedFilePath.startsWith(normalizedCwd)
withinCwd(path, dir) == StartsWith(PathString(path), PathString(dir))

NoVerdict == [ok |-> FALSE, why |-> "none", path |-> <<>>]

\* validateFilePath / validatePath: accepted, or why it throws
validatePath(snap, c, dir) ==
    IF IsUrl(c) THEN [ok |-> TRUE, why |-> "url", path |-> <<>>]
    ELSE LET r == resolved(snap, c, dir) IN
         IF ~withinCwd(r, dir)
         THEN [ok |-> FALSE, why |-> "outside", path |-> r]
         ELSE IF r \notin Existing
              THEN [ok |-> FALSE, why |-> "missing", path |-> r]
              ELSE [ok |-> TRUE, why |-> "path", path |-> r]

(***************************************************************************)
(* parsePath and EndpointWrapper.createEndpoint                            *)
(***************************************************************************)
\* A path string is modelled by its split("/") segments.  Endpoint names
\* are the keys of named_endpoints, "/" followed by one segment.
WithSlash(seg) ==
    CASE seg = "predict"  -> "/predict"
      [] seg = "infer"    -> "/infer"
      [] seg = "add_text" -> "/add_text"
      [] seg = "foo"      -> "/foo"
      [] seg = "bar"      -> "/bar"
      [] seg = "s"        -> "/s"
      [] seg = "0"        -> "/0"
      [] seg = "1"        -> "/1"
      [] seg = "2"        -> "/2"
      [] OTHER            -> "/other"

\* the segment a key appends when it is concatenated to a path
Bare(key) ==
    CASE key = "/predict"  -> "predict"
      [] key = "/infer"    -> "infer"
      [] key = "/add_text" -> "add_text"
      [] key = "/foo"      -> "foo"
      [] key = "/bar"      -> "bar"
      [] key = "/0"        -> "0"
      [] key = "/1"        -> "1"
      [] key = "/2"        -> "2"
      [] OTHER             -> "other"

\* Object.entries key of unnamed endpoint i, and parseInt of such a segment
IndexString(i) ==
    CASE i = 0 -> "0" [] i = 1 -> "1" [] i = 2 -> "2" [] i = 3 -> "3"
      [] OTHER -> "9"
ParseInt(seg) ==
    CASE seg = "0" -> 0 [] seg = "1" -> 1 [] seg = "2" -> 2 [] seg = "3" -> 3
      [] OTHER -> 9
\* !isNaN(Number(seg)): digits, and the empty string (Number("") is 0)
NumberParses(seg) == seg \in {"", "0", "1", "2", "3", "9"}

preferredApis ==
    <<"/predict", "/infer", "/generate", "/complete", "/model_chat",
      "/lambda", "/generate_image", "/process_prompt", "/on_submit",
      "/add_text">>

\* the characters of a segment name
NameChars(seg) ==
    CASE seg = "o"        -> <<"o">>
      [] seg = "p"        -> <<"p">>
      [] seg = "s"        -> <<"s">>
      [] seg = "s.x"      -> <<"s", ".", "x">>
      [] seg = "s_x"      -> <<"s", "_", "x">>
      [] seg = "predict"  -> <<"p", "r", "e", "d", "i", "c", "t">>
      [] seg = "infer"    -> <<"i", "n", "f", "e", "r">>
      [] seg = "add_text" -> <<"a", "d", "d", "_", "t", "e", "x", "t">>
      [] seg = "foo"      -> <<"f", "o", "o">>
      [] seg = "bar"      -> <<"b", "a", "r">>
      [] seg = "zzz"      -> <<"z", "z", "z">>
      [] seg = "x"        -> <<"x">>
      [] seg = "0"        -> <<"0">>
      [] seg = "1"        -> <<"1">>
      [] seg = "2"        -> <<"2">>
      [] seg = "3"        -> <<"3">>
      [] seg = ""         -> <<>>
      [] OTHER            -> <<"?">>

\* [a-zA-Z0-9_-]
WordChars ==
    {"a", "b", "c", "d", "e", "f", "i", "n", "o", "p", "r", "s", "t", "x",
     "z", "0", "1", "2", "3", "_", "-"}

ToolNameLimit == 64
\* `${space}-${endpoint}`.replace(/[^a-zA-Z0-9_-]/g, "_").slice(0, 64)
formatMcpToolName(space, rawEndpoint) ==
    LET text == NameChars(space) \o <<"-">> \o NameChars(rawEndpoint)
        replaced == [i \in 1..Len(text) |->
                        IF text[i] \in WordChars THEN text[i] ELSE "_"]
    IN  SubSeq(replaced, 1, IF Len(replaced) < ToolNameLimit
                            THEN Len(replaced) ELSE ToolNameLimit)

NoPath == [ok |-> FALSE, owner |-> "", space |-> "",
           endpoint |-> [kind |-> "none", name |-> "", index |-> 0],
           mcpToolName |-> <<>>]

\* endpointSpecified: path.replace(/^\//, "").split("/").length === 3
endpointSpecified(segs) ==
    LET parts == IF Len(segs) >= 2 /\ segs[1] = "" THEN Tail(segs) ELSE segs
    IN  Len(parts) = 3

\* parsePath: strip one leading "/", require exactly three segments
parsePath(segs) ==
    LET parts == IF Len(segs) >= 2 /\ segs[1] = "" THEN Tail(segs) ELSE segs
    IN  IF Len(parts) # 3 THEN NoPath
        ELSE [ok |-> TRUE, owner |-> parts[1], space |-> parts[2],
              endpoint |->
                 IF ~NumberParses(parts[3])
                 THEN [kind |-> "name", name |-> WithSlash(parts[3]),
                       index |-> 0]
                 ELSE IF parts[3] = ""
                      THEN [kind |-> "nan", name |-> "", index |-> 0]
                      ELSE [kind |-> "index", name |-> "",
                            index |-> ParseInt(parts[3])],
              mcpToolName |-> formatMcpToolName(parts[2], parts[3])]

\* api.named_endpoints[key] is present
HasNamed(a, key) == \E i \in 1..Len(a.named) : a.named[i] = key

\* preferredApis.find((name) => api.named_endpoints[name])
RECURSIVE FindPreferred(_, _)
FindPreferred(a, i) ==
    IF i > Len(preferredApis) THEN ""
    ELSE IF HasNamed(a, preferredApis[i]) THEN preferredApis[i]
         ELSE FindPreferred(a, i + 1)

\* Object.entries(api.unnamed_endpoints).find(parameters > 0 && returns > 0)
RECURSIVE FindValidUnnamed(_, _)
FindValidUnnamed(a, i) ==
    IF i > Len(a.unnamed) THEN 0
    ELSE IF a.unnamed[i].parameters > 0 /\ a.unnamed[i].returns > 0 THEN i
         ELSE FindValidUnnamed(a, i + 1)

\* client is the spaceName handed to Client.connect, as its segments
NoWrapper == [status |-> "none", error |-> "", from |-> "", key |-> "",
              endpointPath |-> NoPath, client |-> <<>>]
Failed(e) == [NoWrapper EXCEPT !.status = "failed", !.error = e]

\* new EndpointWrapper(parsePath(path), endpoint, gradio); parsePath may throw
Bind(segs, from, key) ==
    LET ep == parsePath(segs) IN
    IF ~ep.ok THEN Failed("InvalidEndpointPath")
    ELSE [NoWrapper EXCEPT !.status = "bound", !.from = from, !.key = key,
                           !.endpointPath = ep]

\* const endpointTarget = pathParts[2] ? `/${pathParts[2]}` : undefined
endpointTarget(parts) ==
    IF Len(parts) >= 3 /\ parts[3] # "" THEN WithSlash(parts[3]) ELSE ""

\* const spaceName = `${pathParts[0]}/${pathParts[1]}`
spaceName(parts) == <<parts[1], parts[2]>>

\* the steps of createEndpoint after view_api has answered
selectEndpoint(parts, a) ==
    IF endpointTarget(parts) # "" /\ HasNamed(a, endpointTarget(parts))
    THEN Bind(parts, "named", endpointTarget(parts))
    ELSE IF FindPreferred(a, 1) # ""
    THEN Bind(Append(parts, Bare(FindPreferred(a, 1))), "named",
              FindPreferred(a, 1))
    ELSE IF Len(a.named) > 0
    THEN Bind(Append(parts, Bare(a.named[1])), "named", a.named[1])
    ELSE IF FindValidUnnamed(a, 1) # 0
    THEN Bind(Append(parts, IndexString(FindValidUnnamed(a, 1) - 1)),
              "unnamed", IndexString(FindValidUnnamed(a, 1) - 1))
    ELSE Failed("NoValidEndpoint")

createEndpoint(parts, a) ==
    IF Len(parts) < 2 \/ Len(parts) > 3 THEN Failed("InvalidPathFormat")
    ELSE [selectEndpoint(parts, a) EXCEPT !.client = spaceName(parts)]

(***************************************************************************)
(* EndpointWrapper.call and handleToolCall; the call-tool request handler  *)
(***************************************************************************)
\* ApiParameter descriptors (parameter_name "" stands for an absent name)
pText  == [parameter_name |-> "text", label |-> "Prompt", type |-> "string",
           python_type |-> "str", component |-> "Textbox"]
pImage == [parameter_name |-> "image", label |-> "Input", type |-> "",
           python_type |-> "filepath", component |-> "Image"]
pBlob  == [parameter_name |-> "file", label |-> "text",
           type |-> "Blob | File | Buffer", python_type |-> "Any",
           component |-> "File"]
pLabel == [parameter_name |-> "", label |-> "image", type |-> "string",
           python_type |-> "str", component |-> "Textbox"]

\* gradio_convert.ts isFileParameter
isFileParameter(param) ==
    \/ param.python_type = "filepath"
    \/ param.type = "Blob | File | Buffer"
    \/ param.component = "Image"
    \/ param.component = "Audio"

\* endpointParams.find((p) => p.parameter_name === key || p.label === key):
\* the index of the first match, 0 when there is none
RECURSIVE findParamByName(_, _, _)
findParamByName(params, key, i) ==
    IF i > Len(params) THEN 0
    ELSE IF params[i].parameter_name = key THEN i
         ELSE findParamByName(params, key, i + 1)

RECURSIVE findParam(_, _, _)
findParam(params, key, i) ==
    IF i > Len(params) THEN 0
    ELSE IF params[i].parameter_name = key \/ params[i].label = key THEN i
         ELSE findParam(params, key, i + 1)

\* argument values: a string (read as a path or URL) or a number
StringValue(c) == [kind |-> "string", cand |-> c, path |-> <<>>]
NumberValue == [kind |-> "number", cand |-> NoCandidate, path |-> <<>>]

needsFileAnyString(params, arg) == arg.value.kind = "string"

\* if (param && isFileParameter(param) && typeof value === "string")
needsFile(params, arg) ==
    LET i == findParam(params, arg.key, 1) IN
    i # 0 /\ isFileParameter(params[i]) /\ arg.value.kind = "string"

\* the for loop of call: the first entry whose validation throws, else 0
RECURSIVE firstInvalid(_, _, _, _, _)
firstInvalid(snap, params, args, dir, i) ==
    IF i > Len(args) THEN 0
    ELSE IF /\ needsFile(params, args[i])
            /\ ~validatePath(snap, args[i].value.cand, dir).ok
         THEN i
         ELSE firstInvalid(snap, params, args, dir, i + 1)

\* parameters[key] = handle_file(value) / handle_file(file)
handleFile(snap, v, dir) ==
    [kind |-> "handle", cand |-> v.cand,
     path |-> IF snap = "part_002" THEN validatePath(snap, v.cand, dir).path
              ELSE <<>>]

\* the argument map handed to handleToolCall when no validation throws
substituted(snap, params, args, dir) ==
    [i \in 1..Len(args) |->
        IF needsFile(params, args[i])
        THEN [key |-> args[i].key,
              value |-> handleFile(snap, args[i].value, dir)]
        ELSE args[i]]

\* typeof progressToken === "number" ? progressToken.toString() : progressToken
normalizedToken(t) ==
    IF t.kind = "number" THEN [kind |-> "string", text |-> t.text] ELSE t

\* errors: instanceof Error or not, the throw site, the message in parts
Err(cause, text) == [instance |-> TRUE, cause |-> cause, text |-> text]
NoErr == [instance |-> FALSE, cause |-> "", text |-> <<>>]

\* the error validation throws out of call
invalidFilePath(snap, v) ==
    IF snap = "part_002"
    THEN Err("InvalidFilePath",
             IF v.why = "outside"
             THEN <<"Path ", " is outside of working directory">>
             ELSE <<"ENOENT">>)
    ELSE Err("InvalidFilePath",
             <<"Invalid or missing file: ",
               IF v.why = "outside"
               THEN " is outside of working directory" ELSE "ENOENT">>)

\* catch (error) { throw new Error(`Error calling endpoint: ${errorMessage}`) }
wrapError(e) == Err(e.cause, <<"Error calling endpoint: ">> \o e.text)

\* throw new Error(`Gradio error: ${msg.message || "Unknown error"}`)
gradioError(msg) ==
    Err("RemoteExecutionError",
        <<"Gradio error: ",
          IF msg.message = "" THEN "Unknown error" ELSE msg.message>>)

noDataError == Err("NoDataReceived", <<"No data received from endpoint">>)

\* data payload elements: strings, an object carrying a url, a number
Elems == {"s1", "o1", "n1"}
TypeOf(e) ==
    CASE e \in {"o1", "o0", "null"} -> "object" [] e = "n1" -> "number"
      [] e = "undefined" -> "undefined" [] OTHER -> "string"
Payloads ==
    {<<>>, <<"s1">>, <<"o1">>, <<"n1">>, <<"o1", "s1">>, <<"s1", "o1">>,
     <<"o1", "o1">>}

\* let result: unset, or the captured array; raw is the msg.data of the
\* event the assignment was made from
NoResult == [set |-> FALSE, data |-> <<>>, raw |-> <<>>]
Captured(d, raw) == [set |-> TRUE, data |-> d, raw |-> raw]

\* the body of `if (msg.type === "data")` in src/src/endpoint_wrapper.ts
captureStrings(res, data) ==
    LET content == SelectSeq(data, LAMBDA e : TypeOf(e) = "string") IN
    IF Len(content) > 0 THEN Captured(content, data) ELSE res

\* msg.data.some((item) => typeof item !== "object")
hasContent(data) == \E i \in 1..Len(data) : TypeOf(data[i]) # "object"

\* the part_002 body keeping the first event that has content
captureContentOnce(res, data) ==
    IF res.set /\ hasContent(res.raw) THEN res
    ELSE IF hasContent(data) \/ ~res.set THEN Captured(data, data) ELSE res

\* the same body in the part_002 snapshot
captureContent(res, data) ==
    IF hasContent(data) THEN Captured(data, data)
    ELSE IF ~res.set THEN Captured(data, data) ELSE res

captureFirst(res, data) == IF res.set THEN res ELSE Captured(data, data)

\* the same body in the part_001 snapshot and in src/src/EndpointWrapper.ts
captureLast(res, data) == Captured(data, data)

capture(snap, res, data) ==
    IF snap = "part_002" THEN captureContent(res, data)
    ELSE IF snap = "part_001" THEN captureLast(res, data)
    ELSE captureStrings(res, data)

\* whether a status event reaches the stage test
\* (else if (msg.type === "status" && progressToken) versus
\*  else if (msg.type === "status"))
statusHandled(snap, tok) == snap = "part_002" \/ Truthy(tok)

\* ApiReturn descriptors
rText  == [label |-> "Out", component |-> "Textbox"]
rImage == [label |-> "Img", component |-> "Image"]

\* predictResults[index]
ElemAt(data, i) == IF i <= Len(data) THEN data[i] ELSE "undefined"

\* further ApiReturn descriptors: audio, a component with a converter that
\* yields nothing, a component without a converter, an empty label
rAudio   == [label |-> "Snd", component |-> "Audio"]
rChatbot == [label |-> "Chat", component |-> "Chatbot"]
rJson    == [label |-> "Raw", component |-> "JSON"]
rBare    == [label |-> "", component |-> "Textbox"]

\* config.claudeDesktopMode, config.debug
Configs == [claudeDesktopMode : BOOLEAN, debug : BOOLEAN]
\* the defaults of parseConfig (CLAUDE_DESKTOP_MODE unset, no --debug)
DefaultConfig == [claudeDesktopMode |-> TRUE, debug |-> FALSE]

\* what the environment does during the conversion of one slot: fetch
\* resolves with ok, resolves with a non-OK status or rejects; the write of
\* the output file and the write of the debug trace succeed or reject
Faults == [fetch : {"ok", "not-ok", "error"}, save : {"ok", "error"},
           trace : {"ok", "error"}]
NoFault == [fetch |-> "ok", save |-> "ok", trace |-> "ok"]

\* value?.url
HasUrl(value) == value = "o1"

\* typeof value === "string" ? value : JSON.stringify(value), as it appears
\* inside the template string
TextOf(value) ==
    CASE TypeOf(value) = "string" -> <<value>>
      [] TypeOf(value) = "undefined" -> <<"undefined">>
      [] OTHER -> <<"JSON.stringify", value>>

\* createTextContent on a string already in parts:
\* const label = component.label ? `${component.label}: ` : ""
TextContent(component, parts) ==
    [type |-> "text",
     text |-> (IF component.label # "" THEN <<component.label, ": ">>
               ELSE <<>>) \o parts,
     data |-> ""]

\* createTextContent
createTextContent(component, value) == TextContent(component, TextOf(value))

\* a converter's result: null, or a content block
Null == [type |-> "null", text |-> <<>>, data |-> ""]

\* convertUrlToBase64 and saveFile: "ok", or the message of what they throw
convertUrlToBase64(fault) ==
    CASE fault.fetch = "error"  -> "fetch failed"
      [] fault.fetch = "not-ok" -> "Failed to fetch resource: 404 Not Found"
      [] OTHER -> "ok"
saveFile(fault) == IF fault.save = "error" THEN "EACCES" ELSE "ok"

\* imageConverter
imageConverter(cfg, component, value, fault) ==
    IF ~HasUrl(value) THEN Null
    ELSE IF convertUrlToBase64(fault) # "ok"
    THEN TextContent(component,
                     <<"Failed to load image: ", convertUrlToBase64(fault)>>)
    ELSE IF saveFile(fault) # "ok" /\ ~cfg.claudeDesktopMode
    THEN TextContent(component,
                     <<"Failed to load image: ", saveFile(fault)>>)
    ELSE [type |-> "image", text |-> <<>>, data |-> value]

\* audioConverter
audioConverter(cfg, component, value, fault) ==
    IF ~HasUrl(value) THEN Null
    ELSE IF convertUrlToBase64(fault) # "ok"
    THEN [type |-> "text",
          text |-> <<"Failed to load audio: ", convertUrlToBase64(fault)>>,
          data |-> ""]
    ELSE IF saveFile(fault) # "ok"
    THEN [type |-> "text",
          text |-> <<"Failed to load audio: ", saveFile(fault)>>,
          data |-> ""]
    ELSE IF cfg.claudeDesktopMode
    THEN [type |-> "resource",
          text |-> <<"Your audio was succesfully created">>, data |-> ""]
    ELSE [type |-> "resource", text |-> <<>>, data |-> value]

\* this.converters.get(component.component) || withFallback(defaultConverter)
converterFor(cfg, component, value, fault) ==
    CASE component.component = "Image" ->
             imageConverter(cfg, component, value, fault)
      [] component.component = "Audio" ->
             audioConverter(cfg, component, value, fault)
      [] OTHER -> Null

\* withFallback: result ?? createTextContent(component, value)
withFallback(cfg, component, value, fault) ==
    IF converterFor(cfg, component, value, fault) = Null
    THEN createTextContent(component, value)
    ELSE converterFor(cfg, component, value, fault)

\* GradioConverter.convert: the debug trace is written first
Converted(block) == [threw |-> FALSE, message |-> "", block |-> block]
ConvertThrew(message) == [threw |-> TRUE, message |-> message, block |-> Null]
convertWith(cfg, component, value, fault) ==
    IF cfg.debug /\ fault.trace = "error" THEN ConvertThrew("EACCES")
    ELSE Converted(withFallback(cfg, component, value, fault))

\* GradioConverter.convert in an environment where nothing fails
convert(output, value) ==
    convertWith(DefaultConfig, output, value, NoFault).block

\* convertPredictResults
convertPredictResults(returns, predictResults) ==
    [content |-> [i \in 1..Len(returns) |->
                     convert(returns[i], ElemAt(predictResults, i))],
     isError |-> FALSE]

\* what call returned or threw
NoOutcome == [kind |-> "none", content |-> <<>>, isError |-> FALSE,
              error |-> NoErr]
Returned(r) == [kind |-> "returned", content |-> r.content,
                isError |-> r.isError, error |-> NoErr]
Thrown(e) == [kind |-> "thrown", content |-> <<>>, isError |-> FALSE,
              error |-> e]

\* the wrapper a call runs on, the request, the stream's history
NoEndpoint == [parameters |-> <<>>, returns |-> <<>>,
               designator |-> NoPath.endpoint]
NoRequest == [name |-> "", arguments |-> <<>>]
NoSeen == [n |-> 0, data |-> FALSE, error |-> FALSE, errMsg |-> "",
           afterError |-> 0, ended |-> FALSE, prev |-> <<>>, last |-> <<>>,
           datas |-> 0, first |-> <<>>, firstContent |-> <<>>,
           lastContent |-> <<>>, status |-> <<>>]

callToolHandlerNoCatch(o) == o

\* the CallToolRequestSchema handler around endpoint.call
callToolHandler(o) ==
    IF o.kind = "returned" THEN o
    ELSE IF o.error.instance
         THEN [kind |-> "returned",
               content |-> <<[type |-> "text",
                              text |-> <<"mcp-hfspace error: ">> \o o.error.text,
                              data |-> ""]>>,
               isError |-> TRUE, error |-> NoErr]
         ELSE o

(***************************************************************************)
(* gradio_convert.ts: isFileParameter is above; convertParameter and       *)
(* convertApiToSchema in the two snapshots held by part_003                *)
(***************************************************************************)
Revisions == {"part_003@215", "part_003@338"}

\* ApiParameter with the fields schema conversion reads; "" stands for an
\* absent or empty string, example_input "none" for an absent example
SchemaParameter(name, label, type, pytype, pydesc, component, hasDefault, example) ==
    [parameter_name |-> name, label |-> label, type |-> type,
     python_type |-> pytype, description |-> pydesc, component |-> component,
     parameter_has_default |-> hasDefault, example_input |-> example]
NoParameter ==
    SchemaParameter("", "", "", "", "", "", FALSE, "none")

\* the descriptions written for file inputs
AcceptsGeneric == "Accepts: URL, file path, or resource identifier"
AcceptsAudio == "Accepts: Audio file URL, file path, or resource identifier"
AcceptsImage == "Accepts: Image file URL, file path, or resource identifier"
AcceptsGenericName ==
    "Accepts: URL, file path, file name, or resource identifier"
AcceptsAudioName ==
    "Accepts: Audio file URL, file path, file name, or resource identifier"
AcceptsImageName ==
    "Accepts: Image file URL, file path, file name, or resource identifier"
ChatHistory == "Chat history as an array of message pairs."

\* parseNumberConstraints on the descriptions used here
NoConstraints == [hasMin |-> FALSE, minimum |-> 0, hasMax |-> FALSE,
                  maximum |-> 0]
parseNumberConstraints(description) ==
    CASE description = "between 0 and 10" ->
             [hasMin |-> TRUE, minimum |-> 0, hasMax |-> TRUE, maximum |-> 10]
      [] description = "min: 1" ->
             [hasMin |-> TRUE, minimum |-> 1, hasMax |-> FALSE, maximum |-> 0]
      [] OTHER -> NoConstraints

\* a ParameterSchema: absent keys are marked by the has-flags, an absent
\* description by ""
Property(type, description, p, examples) ==
    [type |-> type, description |-> description,
     hasDefault |-> p.parameter_has_default, examples |-> examples,
     enum |-> FALSE, constraints |-> NoConstraints]
NoProperty ==
    [type |-> "", description |-> "", hasDefault |-> FALSE, examples |-> <<>>,
     enum |-> FALSE, constraints |-> NoConstraints]

\* param.example_input.url || param.example_input.path
UrlOrPath(example) ==
    CASE example = "url" -> "url" [] example = "path" -> "path"
      [] OTHER -> "undefined"

IsLiteral(pytype) == pytype = "Literal['a', 'b']"

\* param.python_type?.description || param.label || undefined
DescriptionOrLabel(p) ==
    IF p.description # "" THEN p.description ELSE p.label

\* the tail both snapshots share: number constraints, Literal enum, base
schemaTail(p, baseSchema) ==
    IF p.type = "number" /\ p.description # ""
    THEN [baseSchema EXCEPT
             !.constraints = parseNumberConstraints(p.description)]
    ELSE IF IsLiteral(p.python_type)
    THEN [baseSchema EXCEPT !.description = DescriptionOrLabel(p),
                            !.enum = TRUE]
    ELSE baseSchema

\* convertParameter, part_003 lines 224-279
convertParameterEarlier(p) ==
    IF p.python_type = "filepath"
    THEN [Property("string",
                   CASE p.component = "Audio" -> AcceptsAudio
                     [] p.component = "Image" -> AcceptsImage
                     [] OTHER -> AcceptsGeneric,
                   p,
                   IF p.example_input # "none"
                   THEN <<UrlOrPath(p.example_input)>> ELSE <<>>)
          EXCEPT !.hasDefault = FALSE]
    ELSE IF p.type = "Blob | File | Buffer"
    THEN [Property("string", AcceptsGeneric, p,
                   IF UrlOrPath(p.example_input) # "undefined"
                   THEN <<UrlOrPath(p.example_input)>> ELSE <<>>)
          EXCEPT !.hasDefault = FALSE]
    ELSE schemaTail(p,
             Property(IF p.type = "" THEN "string" ELSE p.type,
                      DescriptionOrLabel(p), p,
                      IF p.example_input # "none"
                      THEN <<p.example_input>> ELSE <<>>))

\* convertParameter, part_003 lines 347-394
convertParameterLater(p) ==
    LET chat == p.parameter_name = "history" /\ p.component = "Chatbot"
        baseType ==
            IF isFileParameter(p) THEN "string"
            ELSE IF chat THEN "array"
            ELSE IF p.type = "" THEN "string" ELSE p.type
        baseDescription ==
            IF isFileParameter(p)
            THEN CASE p.component = "Audio" -> AcceptsAudioName
                   [] p.component = "Image" -> AcceptsImageName
                   [] OTHER -> AcceptsGenericName
            ELSE IF chat THEN ChatHistory
            ELSE DescriptionOrLabel(p)
    IN  schemaTail(p,
            Property(baseType, baseDescription, p,
                     IF p.example_input # "none"
                     THEN <<p.example_input>> ELSE <<>>))

convertParameter(rev, p) ==
    IF rev = "part_003@215" THEN convertParameterEarlier(p)
    ELSE convertParameterLater(p)

\* property names: a parameter_name or label, or `Unnamed Parameter ${n}`
Named(text) == [text |-> text, n |-> 0]
Unnamed(n) == [text |-> "Unnamed Parameter ", n |-> n]

\* properties[propertyName] = value on an object kept as its entries in
\* key order: a new key goes last, an existing key keeps its place
RECURSIVE HasKey(_, _, _)
HasKey(entries, name, i) ==
    IF i > Len(entries) THEN FALSE
    ELSE entries[i].name = name \/ HasKey(entries, name, i + 1)
Put(entries, name, value) ==
    IF HasKey(entries, name, 1)
    THEN [i \in 1..Len(entries) |->
             IF entries[i].name = name
             THEN [name |-> name, value |-> value] ELSE entries[i]]
    ELSE Append(entries, [name |-> name, value |-> value])

\* the schema under construction: properties, required, the names in the
\* order they were assigned, and propertyCounter
NoSchema == [properties |-> <<>>, required |-> <<>>, assigned |-> <<>>,
             propertyCounter |-> 1]

\* param.parameter_name || param.label || `Unnamed Parameter ${propertyCounter++}`
propertyName(p, counter) ==
    IF p.parameter_name # "" THEN Named(p.parameter_name)
    ELSE IF p.label # "" THEN Named(p.label)
    ELSE Unnamed(counter)

addParameterCountingAll(rev, acc, p) ==
    LET name == propertyName(p, acc.propertyCounter) IN
    [properties |-> Put(acc.properties, name, convertParameter(rev, p)),
     required |-> IF ~p.parameter_has_default
                  THEN Append(acc.required, name) ELSE acc.required,
     assigned |-> Append(acc.assigned, name),
     propertyCounter |-> acc.propertyCounter + 1]

\* the body of endpoint.parameters.forEach
addParameter(rev, acc, p) ==
    LET name == propertyName(p, acc.propertyCounter) IN
    [properties |-> Put(acc.properties, name, convertParameter(rev, p)),
     required |-> IF ~p.parameter_has_default
                  THEN Append(acc.required, name) ELSE acc.required,
     assigned |-> Append(acc.assigned, name),
     propertyCounter |-> IF p.parameter_name = "" /\ p.label = ""
                         THEN acc.propertyCounter + 1
                         ELSE acc.propertyCounter]

\* convertApiToSchema
RECURSIVE schemaFrom(_, _, _, _)
schemaFrom(rev, params, i, acc) ==
    IF i > Len(params) THEN acc
    ELSE schemaFrom(rev, params, i + 1, addParameter(rev, acc, params[i]))
convertApiToSchema(rev, ep) == schemaFrom(rev, ep.parameters, 1, NoSchema)

(***************************************************************************)
(* Server startup (index.ts): the initialisation loop over the configured  *)
(* paths, and the list-tools and call-tool lookups in the endpoints map    *)
(***************************************************************************)
\* a configured path with what its space answers: whether Client.connect
\* and view_api succeed, and the discovery response
SpacePath(parts, connects, a) ==
    [path |-> parts, connects |-> connects, api |-> a]

\* await EndpointWrapper.createEndpoint(spacePath); a rejection of
\* Client.connect or view_api leaves createEndpoint as an Error
createEndpointAt(sp) ==
    IF Len(sp.path) \in 2..3 /\ ~sp.connects THEN Failed("DiscoveryFailed")
    ELSE createEndpoint(sp.path, sp.api)

\* endpoint.toolDefinition().name
toolName(w) == w.endpointPath.mcpToolName

\* endpoints.get(name), NoWrapper for undefined
RECURSIVE MapGet(_, _, _)
MapGet(entries, name, i) ==
    IF i > Len(entries) THEN NoWrapper
    ELSE IF entries[i].name = name THEN entries[i].value
         ELSE MapGet(entries, name, i + 1)

\* the loop body without its try/catch: a rejection leaves the module
loadSpacePathUncaught(st, sp) ==
    LET w == createEndpointAt(sp) IN
    IF w.status = "bound"
    THEN [st EXCEPT !.endpoints = Put(@, toolName(w), w), !.loaded = @ + 1]
    ELSE [st EXCEPT !.phase = "aborted"]

\* one iteration of for (const spacePath of config.spacePaths): every
\* failure createEndpoint has is an Error, which is logged and skipped
loadSpacePath(st, sp) ==
    LET w == createEndpointAt(sp) IN
    IF w.status = "bound"
    THEN [st EXCEPT !.endpoints = Put(@, toolName(w), w), !.loaded = @ + 1]
    ELSE [st EXCEPT !.logged = Append(@, sp.path), !.loaded = @ + 1]

\* if (endpoints.size === 0) throw new Error("No valid endpoints found ...")
startServing(st) ==
    [st EXCEPT !.phase = IF Len(st.endpoints) = 0 THEN "aborted"
                         ELSE "serving"]

\* Array.from(endpoints.values()).map((endpoint) => endpoint.toolDefinition())
listTools(entries) == [i \in 1..Len(entries) |-> toolName(entries[i].value)]

NoDispatch == [name |-> <<>>, wrapper |-> NoWrapper, known |-> FALSE]
\* const endpoint = endpoints.get(request.params.name);
\* if (!endpoint) throw new Error(`Unknown tool: ...`)
lookupTool(entries, name) ==
    [name |-> name, wrapper |-> MapGet(entries, name, 1),
     known |-> HasKey(entries, name, 1)]

(***************************************************************************)
(* SpecNotifier: one notifier instance fed arbitrary status events         *)
(***************************************************************************)
\* parts of the state a specification does not exercise
IdleNotifier ==
    /\ lastProgress = Fin(0)
    /\ emitted = <<>>
    /\ fed = <<>>
    /\ token = NoToken
IdlePath ==
    /\ snapshot = "endpoint_wrapper.ts"
    /\ cwd = <<>>
    /\ candidate = NoCandidate
    /\ verdict = NoVerdict
IdleResolve ==
    /\ configuredPath = <<>>
    /\ api = [named |-> <<>>, unnamed |-> <<>>]
    /\ wrapper = NoWrapper
    /\ submitted = <<>>
IdleCall ==
    /\ endpoint = NoEndpoint
    /\ request = NoRequest
    /\ pc = "idle"
    /\ result = NoResult
    /\ seen = NoSeen
    /\ outcome = NoOutcome
    /\ response = NoOutcome

IdleConvert ==
    /\ config = DefaultConfig
    /\ faults = <<>>
    /\ blocks = <<>>
IdleConcurrent ==
    /\ notifiers = <<>>
    /\ calls = <<>>
IdleSchema ==
    /\ revision = "part_003@338"
    /\ parameter = NoParameter
    /\ property = NoProperty
    /\ schema = NoSchema
IdleStartup ==
    /\ spacePaths = <<>>
    /\ loaded = 0
    /\ endpoints = <<>>
    /\ logged = <<>>
    /\ phase = "idle"
    /\ tools = <<>>
    /\ dispatched = NoDispatch
Idle == IdleConvert /\ IdleConcurrent /\ IdleSchema /\ IdleStartup

\* createProgressNotifier: let lastProgress = 0
InitNotifier ==
    /\ lastProgress = Fin(0)
    /\ emitted = <<>>
    /\ fed = <<>>
    /\ token \in Tokens
    /\ IdlePath
    /\ IdleResolve
    /\ IdleCall
    /\ Idle

\* notify(status, progressToken), lines 79-83
notifyWith(status, tok) ==
    /\ fed' = Append(fed, status.stage)
    /\ IF ~Truthy(tok)
       THEN UNCHANGED <<lastProgress, emitted>>
       ELSE /\ lastProgress' = createNotification(status, lastProgress)
            /\ emitted' = Append(emitted, lastProgress')

notify(status) ==
    /\ Len(fed) < MaxEvents
    /\ notifyWith(status, token)
    /\ UNCHANGED xvars
    /\ UNCHANGED <<token, pvars, rvars, cvars>>

NotifyStage ==
    \E status \in StatusEvents : status.pd.kind = "none" /\ notify(status)

NotifySteps ==
    \E status \in StatusEvents : status.pd.kind # "none" /\ notify(status)

NextNotifier == NotifyStage \/ NotifySteps

SpecNotifier == InitNotifier /\ [][NextNotifier]_vars

(***************************************************************************)
(* C1: the progress values emitted by one notifier with a truthy token     *)
(* are non-decreasing, whatever events are fed and in whatever order.      *)
(***************************************************************************)
C1_EmittedNonDecreasing ==
    Truthy(token) =>
        \A i \in 1..(Len(emitted) - 1) : NumGeq(emitted[i + 1], emitted[i])

(***************************************************************************)
(* SpecPath: validation of one candidate against one working directory     *)
(***************************************************************************)
InitPath ==
    /\ snapshot \in Snapshots
    /\ cwd \in Roots
    /\ candidate \in Candidates
    /\ verdict = NoVerdict
    /\ IdleNotifier
    /\ IdleResolve
    /\ IdleCall
    /\ Idle

Validate ==
    /\ verdict = NoVerdict
    /\ verdict' = validatePath(snapshot, candidate, cwd)
    /\ UNCHANGED xvars
    /\ UNCHANGED <<snapshot, cwd, candidate, nvars, rvars, cvars>>

NextPath == Validate

SpecPath == InitPath /\ [][NextPath]_vars

\* the directory itself or a descendant of it, segment by segment
Contained(path, dir) ==
    Len(dir) <= Len(path) /\ SubSeq(path, 1, Len(dir)) = dir

(***************************************************************************)
(* C9: a non-URL candidate is accepted only if its resolved path is the    *)
(* working root or a descendant of it (anything resolving outside, a       *)
(* sibling directory included, is rejected); http(s) URLs are always       *)
(* accepted.                                                               *)
(***************************************************************************)
C9_AcceptedOnlyWithinRoot ==
    verdict # NoVerdict =>
        /\ IsUrl(candidate) => verdict.ok
        /\ (~IsUrl(candidate) /\ verdict.ok) => Contained(verdict.path, cwd)

(***************************************************************************)
(* SpecResolve: createEndpoint on one configured path and one discovery    *)
(* response, then calls submitted on the wrapper it returned               *)
(***************************************************************************)
NamedKeys == {"/predict", "/infer", "/add_text", "/foo", "/bar", "/0"}
InjSeqs(S, n) ==
    {q \in Seqs(S, n) : \A i, j \in 1..Len(q) : i # j => q[i] # q[j]}
Apis ==
    [named : InjSeqs(NamedKeys, MaxNamed),
     unnamed : Seqs([parameters : 0..1, returns : 0..1], MaxUnnamed)]
Paths ==
    {<<"o">>, <<"o", "s">>, <<"o", "s", "predict">>, <<"o", "s", "infer">>,
     <<"o", "s", "foo">>, <<"o", "s", "zzz">>, <<"o", "s", "0">>,
     <<"o", "s", "">>, <<"", "o", "s">>, <<"", "o", "s", "foo">>,
     <<"o", "s", "foo", "x">>}

InitResolve ==
    /\ configuredPath \in Paths
    /\ api \in Apis
    /\ wrapper = NoWrapper
    /\ submitted = <<>>
    /\ snapshot \in Snapshots
    /\ cwd = <<>>
    /\ candidate = NoCandidate
    /\ verdict = NoVerdict
    /\ IdleNotifier
    /\ IdleCall
    /\ Idle

CreateEndpoint ==
    /\ wrapper.status = "none"
    /\ wrapper' = createEndpoint(configuredPath, api)
    /\ UNCHANGED xvars
    /\ UNCHANGED <<configuredPath, api, submitted, nvars, pvars, cvars>>

\* handleToolCall: this.client.submit(this.endpointPath.endpoint, parameters)
Submit ==
    /\ wrapper.status = "bound"
    /\ Len(submitted) < MaxCalls
    /\ submitted' = Append(submitted,
            [endpoint |-> wrapper.endpointPath.endpoint,
             parameters |-> <<>>])
    /\ UNCHANGED xvars
    /\ UNCHANGED <<configuredPath, api, wrapper, nvars, pvars, cvars>>

NextResolve == CreateEndpoint \/ Submit

SpecResolve == InitResolve /\ [][NextResolve]_vars

\* the claims' reading of the resolution steps
WellFormed == Len(configuredPath) \in 2..3
ThirdGiven == Len(configuredPath) = 3 /\ configuredPath[3] # ""
ThirdMatches == ThirdGiven /\ HasNamed(api, WithSlash(configuredPath[3]))
PreferredPresent == {i \in 1..Len(preferredApis) : HasNamed(api, preferredApis[i])}
FirstPreferred ==
    preferredApis[CHOOSE i \in PreferredPresent :
                      \A j \in PreferredPresent : i <= j]
ValidUnnamed ==
    {i \in 1..Len(api.unnamed) :
        api.unnamed[i].parameters > 0 /\ api.unnamed[i].returns > 0}
FirstValidUnnamed == CHOOSE i \in ValidUnnamed : \A j \in ValidUnnamed : i <= j
BoundTo(from, key) ==
    wrapper.status = "bound" /\ wrapper.from = from /\ wrapper.key = key
Resolved == wrapper.status # "none"

(***************************************************************************)
(* C5: createEndpoint binds to the explicit named endpoint when the third  *)
(* segment names one; otherwise to the first entry of the preference list  *)
(* that exists; otherwise to the first named endpoint in discovery order.  *)
(***************************************************************************)
C5_BindsByPriority ==
    (Resolved /\ WellFormed) =>
        IF ThirdMatches
        THEN BoundTo("named", WithSlash(configuredPath[3]))
        ELSE IF PreferredPresent # {} THEN BoundTo("named", FirstPreferred)
        ELSE IF Len(api.named) > 0 THEN BoundTo("named", api.named[1])
        ELSE TRUE

(***************************************************************************)
(* C6: a third segment that matches no named endpoint does not fail the    *)
(* resolution: it continues with the preference list, the first named      *)
(* endpoint and the first valid unnamed endpoint, and fails only when      *)
(* none of those exists.                                                   *)
(***************************************************************************)
C6_UnmatchedThirdFallsThrough ==
    (Resolved /\ ThirdGiven /\ ~ThirdMatches) =>
        IF PreferredPresent # {} THEN BoundTo("named", FirstPreferred)
        ELSE IF Len(api.named) > 0 THEN BoundTo("named", api.named[1])
        ELSE IF ValidUnnamed # {}
        THEN BoundTo("unnamed", IndexString(FirstValidUnnamed - 1))
        ELSE wrapper.status = "failed"

(***************************************************************************)
(* C7: with no named endpoint, createEndpoint binds to the first unnamed   *)
(* endpoint that has a parameter and a return, its designator is the       *)
(* integer index, and every call on the wrapper submits with that index.   *)
(***************************************************************************)
C7_UnnamedBoundByIndex ==
    (Resolved /\ WellFormed /\ Len(api.named) = 0 /\ ValidUnnamed # {}) =>
        /\ BoundTo("unnamed", IndexString(FirstValidUnnamed - 1))
        /\ wrapper.endpointPath.endpoint =
               [kind |-> "index", name |-> "", index |-> FirstValidUnnamed - 1]
        /\ \A i \in 1..Len(submitted) :
               submitted[i].endpoint =
                   [kind |-> "index", name |-> "",
                    index |-> FirstValidUnnamed - 1]

(***************************************************************************)
(* Spec: one call-tool request, from the handler to its response           *)
(***************************************************************************)
CallTokens == {NoToken, [kind |-> "string", text |-> "tok"],
               [kind |-> "number", text |-> "0"]}
Inside  == [scheme |-> "", abs |-> FALSE, segs |-> <<"a">>]
Outside == [scheme |-> "", abs |-> TRUE, segs |-> <<"a">>]
Missing == [scheme |-> "", abs |-> FALSE, segs |-> <<"w">>]
Url     == [scheme |-> "https://", abs |-> FALSE, segs |-> <<"a">>]
Predict == [kind |-> "name", name |-> "/predict", index |-> 0]

CallEndpoints ==
    [parameters : {<<pText, pImage>>}, returns : {<<rText>>, <<rImage, rText>>},
     designator : {Predict}]
CallArguments ==
    {<<>>, <<[key |-> "text", value |-> StringValue(Inside)]>>,
     <<[key |-> "image", value |-> StringValue(Outside)]>>}
CallStatusEvents ==
    {st \in StatusEvents :
        /\ ~st.queue /\ st.position = -1
        /\ st.pd \in {NoProgressData,
                      [kind |-> "item", index |-> 1, length |-> 3]}}
StreamErrors ==
    {Err("StreamError", <<"network">>),
     [instance |-> FALSE, cause |-> "StreamError", text |-> <<"oops">>]}

InitCall(tokens, specs, names, arguments) ==
    /\ snapshot \in Snapshots
    /\ cwd = <<"w">>
    /\ candidate = NoCandidate
    /\ verdict = NoVerdict
    /\ token \in tokens
    /\ lastProgress = Fin(0)
    /\ emitted = <<>>
    /\ fed = <<>>
    /\ IdleResolve
    /\ endpoint \in specs
    /\ request \in [name : names, arguments : arguments]
    /\ pc = "ready"
    /\ result = NoResult
    /\ seen = NoSeen
    /\ outcome = NoOutcome
    /\ response = NoOutcome
    /\ Idle

Init == InitCall(CallTokens, CallEndpoints, {"tool", "missing"}, CallArguments)

\* call returns or throws, and the handler answers the request
Finish(o) ==
    /\ outcome' = o
    /\ response' = callToolHandler(o)
    /\ pc' = "done"

\* the handler looks the tool up and runs call up to client.submit
CallTool ==
    /\ pc = "ready"
    /\ IF request.name # "tool"
       THEN /\ response' = Thrown(Err("UnknownTool", <<"Unknown tool: ">>))
            /\ pc' = "done"
            /\ UNCHANGED <<outcome, submitted>>
       ELSE LET bad == firstInvalid(snapshot, endpoint.parameters,
                                    request.arguments, cwd, 1)
            IN  IF bad # 0
                THEN /\ Finish(Thrown(invalidFilePath(snapshot,
                            validatePath(snapshot,
                                request.arguments[bad].value.cand, cwd))))
                     /\ UNCHANGED submitted
                ELSE /\ submitted' = Append(submitted,
                            [endpoint |-> endpoint.designator,
                             parameters |->
                                 substituted(snapshot, endpoint.parameters,
                                             request.arguments, cwd)])
                     /\ pc' = "streaming"
                     /\ UNCHANGED <<outcome, response>>
    /\ UNCHANGED xvars
    /\ UNCHANGED <<nvars, pvars, configuredPath, api, wrapper, endpoint,
                   request, result, seen>>

\* one "data" event of the stream
OnData(d) ==
    /\ pc = "streaming"
    /\ seen.n < MaxStream
    /\ result' = capture(snapshot, result, d)
    /\ seen' = [seen EXCEPT !.n = @ + 1, !.data = TRUE,
                            !.afterError = IF seen.error THEN @ + 1 ELSE @,
                            !.prev = seen.last, !.last = d,
                            !.datas = @ + 1,
                            !.first = IF seen.datas = 0 THEN d ELSE @,
                            !.firstContent =
                                IF hasContent(d) /\ ~hasContent(@)
                                THEN d ELSE @,
                            !.lastContent = IF hasContent(d) THEN d ELSE @]
    /\ UNCHANGED xvars
    /\ UNCHANGED <<nvars, pvars, rvars, endpoint, request, pc, outcome,
                   response>>

\* one "status" event of the stream
OnStatus(st) ==
    /\ pc = "streaming"
    /\ seen.n < MaxStream
    /\ seen' = [seen EXCEPT !.n = @ + 1,
                            !.error = @ \/ st.stage = "error",
                            !.errMsg = IF ~seen.error /\ st.stage = "error"
                                       THEN st.message ELSE @,
                            !.afterError = IF seen.error THEN @ + 1 ELSE @,
                            !.status = st]
    /\ IF statusHandled(snapshot, normalizedToken(token)) /\ st.stage = "error"
       THEN /\ Finish(Thrown(wrapError(gradioError(st))))
            /\ UNCHANGED <<lastProgress, emitted, fed>>
       ELSE /\ IF Truthy(normalizedToken(token))
               THEN notifyWith(st, normalizedToken(token))
               ELSE UNCHANGED <<lastProgress, emitted, fed>>
            /\ UNCHANGED <<pc, outcome, response>>
    /\ UNCHANGED xvars
    /\ UNCHANGED <<token, pvars, rvars, endpoint, request, result>>

\* the stream ends: the code after the loop
StreamEnd ==
    /\ pc = "streaming"
    /\ seen' = [seen EXCEPT !.ended = TRUE]
    /\ IF ~result.set
       THEN Finish(Thrown(wrapError(noDataError)))
       ELSE Finish(Returned(convertPredictResults(endpoint.returns,
                                                  result.data)))
    /\ UNCHANGED xvars
    /\ UNCHANGED <<nvars, pvars, rvars, endpoint, request, result>>

\* the stream's iterator throws
OnThrow(e) ==
    /\ pc = "streaming"
    /\ Finish(Thrown(wrapError(e)))
    /\ UNCHANGED xvars
    /\ UNCHANGED <<nvars, pvars, rvars, endpoint, request, result, seen>>

StreamData   == \E d \in Payloads : OnData(d)
StreamStatus == \E st \in CallStatusEvents : OnStatus(st)
StreamThrows == \E e \in StreamErrors : OnThrow(e)

Next == CallTool \/ StreamData \/ StreamStatus \/ StreamEnd \/ StreamThrows

Spec == Init /\ [][Next]_vars

(***************************************************************************)
(* C2: an error-stage status event aborts the call with a                  *)
(* RemoteExecutionError carrying the remote message (or the placeholder),  *)
(* with or without a progress token: nothing is returned and no later      *)
(* event of the stream is processed.                                       *)
(***************************************************************************)
C2_ErrorStageAborts ==
    seen.error =>
        /\ pc = "done"
        /\ outcome.kind = "thrown"
        /\ outcome.error.cause = "RemoteExecutionError"
        /\ outcome.error.text =
               <<"Error calling endpoint: ", "Gradio error: ",
                 IF seen.errMsg = "" THEN "Unknown error" ELSE seen.errMsg>>
        /\ seen.afterError = 0

(***************************************************************************)
(* C3: a stream that ends without an error-stage status fails with         *)
(* NoDataReceived if and only if it held no data event; with at least one  *)
(* data event, whatever its elements, the call reaches result conversion.  *)
(***************************************************************************)
C3_NoDataIffNoDataEvent ==
    (seen.ended /\ ~seen.error) =>
        /\ (outcome.kind = "thrown" /\ outcome.error.cause = "NoDataReceived")
               <=> ~seen.data
        /\ seen.data => outcome.kind = "returned"

(***************************************************************************)
(* C4: a successful call returns isError = false and one block per return  *)
(* descriptor, in order; block i is the conversion of returns[i] paired    *)
(* with element i of the captured payload as the remote sent it.           *)
(***************************************************************************)
C4_BlocksPairPositionally ==
    outcome.kind = "returned" =>
        /\ ~outcome.isError
        /\ Len(outcome.content) = Len(endpoint.returns)
        /\ \A i \in 1..Len(endpoint.returns) :
               outcome.content[i] =
                   convert(endpoint.returns[i], ElemAt(result.raw, i))

(***************************************************************************)
(* C10: for a request naming a registered tool the handler returns a       *)
(* structured result and never throws: isError = true with exactly one     *)
(* text block when the call failed, isError = false when it succeeded.     *)
(***************************************************************************)
C10_HandlerAlwaysAnswers ==
    (pc = "done" /\ request.name = "tool") =>
        /\ response.kind = "returned"
        /\ outcome.kind = "thrown" =>
               /\ response.isError
               /\ Len(response.content) = 1
               /\ response.content[1].type = "text"
        /\ outcome.kind = "returned" => ~response.isError

\* a stream error that is no Error instance was turned into an error result
C10_Witness ==
    /\ pc = "done" /\ request.name = "tool"
    /\ outcome.kind = "thrown" /\ outcome.error.cause = "StreamError"
    /\ outcome.error.text = <<"Error calling endpoint: ", "oops">>
    /\ response.kind = "returned" /\ response.isError

(***************************************************************************)
(* SpecArgs: the argument loop of call over argument maps and parameter    *)
(* lists, followed by a short stream                                       *)
(***************************************************************************)
ArgKeys == {"text", "image", "Input", "other"}
ArgValues == {StringValue(Inside), StringValue(Outside), StringValue(Url),
              StringValue(Missing), NumberValue}
ArgEntries == [key : ArgKeys, value : ArgValues]
ArgMaps ==
    {q \in Seqs(ArgEntries, MaxArgs) :
        \A i, j \in 1..Len(q) : i # j => q[i].key # q[j].key}
ArgEndpoints ==
    [parameters : {<<>>, <<pText, pImage>>, <<pLabel, pImage>>,
                   <<pImage, pBlob>>, <<pBlob, pText>>},
     returns : {<<rText>>}, designator : {Predict}]

InitArgs == InitCall({NoToken}, ArgEndpoints, {"tool"}, ArgMaps)

BriefData == OnData(<<"s1">>)

NextArgs == CallTool \/ BriefData \/ StreamEnd

SpecArgs == InitArgs /\ [][NextArgs]_vars

\* the claim's reading: the descriptor an argument matches is the first one
\* whose wire-level name or label equals the key
Matching(key) ==
    {j \in 1..Len(endpoint.parameters) :
        \/ endpoint.parameters[j].parameter_name = key
        \/ endpoint.parameters[j].label = key}
FileArgument(i) ==
    LET M == Matching(request.arguments[i].key) IN
    /\ M # {}
    /\ isFileParameter(endpoint.parameters[CHOOSE j \in M : \A k \in M : j <= k])
    /\ request.arguments[i].value.kind = "string"
InvalidArguments ==
    {i \in 1..Len(request.arguments) :
        /\ FileArgument(i)
        /\ ~validatePath(snapshot, request.arguments[i].value.cand, cwd).ok}
FirstInvalidArgument ==
    CHOOSE i \in InvalidArguments : \A k \in InvalidArguments : i <= k

(***************************************************************************)
(* C8: when some supplied string argument matching a file-like parameter   *)
(* fails path validation, submit is never invoked for the call and the     *)
(* call fails with InvalidFilePath, raised for the first invalid argument  *)
(* in argument-map order.                                                  *)
(***************************************************************************)
C8_InvalidPathNeverSubmits ==
    InvalidArguments # {} =>
        /\ submitted = <<>>
        /\ pc \in {"ready", "done"}
        /\ pc = "done" =>
               /\ outcome.kind = "thrown"
               /\ outcome.error.cause = "InvalidFilePath"
               /\ outcome.error =
                      invalidFilePath(snapshot,
                          validatePath(snapshot,
                              request.arguments[FirstInvalidArgument].value.cand,
                              cwd))

\* a call aborted by its second argument, matched through the label, after
\* a valid file argument went before it
C8_Witness ==
    /\ pc = "done"
    /\ Len(request.arguments) = 2
    /\ FileArgument(1)
    /\ InvalidArguments = {2}
    /\ request.arguments[2].key = "Input"
    /\ outcome.kind = "thrown"
    /\ outcome.error.cause = "InvalidFilePath"
    /\ submitted = <<>>

(***************************************************************************)
(* C11: every failure of EndpointWrapper.call, at whichever step it        *)
(* arises, reaches the caller as an error whose message is                 *)
(* 'Error calling endpoint: ' followed by the original message.            *)
(***************************************************************************)
C11_EveryFailureEnveloped ==
    outcome.kind = "thrown" =>
        /\ outcome.error.instance
        /\ Len(outcome.error.text) >= 2
        /\ outcome.error.text[1] = "Error calling endpoint: "

(***************************************************************************)
(* SpecConvert: convertPredictResults over the captured payload, slot by   *)
(* slot, in an environment where fetch and the file writes may fail        *)
(***************************************************************************)
FetchRejects == [NoFault EXCEPT !.fetch = "error"]
FetchNotOk   == [NoFault EXCEPT !.fetch = "not-ok"]
SaveRejects  == [NoFault EXCEPT !.save = "error"]
TraceRejects == [NoFault EXCEPT !.trace = "error"]
SingleFaults == {NoFault, FetchRejects, FetchNotOk, SaveRejects, TraceRejects}

\* one output slot: its descriptor, the payload element, the environment
Slot(r, v, f) == [output |-> r, value |-> v, fault |-> f]
ConvertSlots ==
    {Slot(rText, "s1", NoFault), Slot(rText, "s1", TraceRejects),
     Slot(rText, "o0", NoFault), Slot(rText, "undefined", NoFault),
     Slot(rChatbot, "s1", NoFault), Slot(rChatbot, "o1", NoFault),
     Slot(rJson, "o0", NoFault), Slot(rBare, "s1", NoFault),
     Slot(rImage, "s1", NoFault), Slot(rImage, "o0", NoFault),
     Slot(rAudio, "o0", NoFault)}
    \cup {Slot(rImage, "o1", f) : f \in SingleFaults}
    \cup {Slot(rAudio, "o1", f) : f \in SingleFaults}
SlotLists == Seqs(ConvertSlots, MaxReturns) \ {<<>>}

Outputs(q) == [i \in 1..Len(q) |-> q[i].output]
Values(q)  == [i \in 1..Len(q) |-> q[i].value]
FaultsOf(q) == [i \in 1..Len(q) |-> q[i].fault]

\* the stream has ended with a payload captured; conversion is about to run
InitConvert ==
    /\ \E q \in SlotLists :
          /\ endpoint = [parameters |-> <<>>, returns |-> Outputs(q),
                         designator |-> Predict]
          /\ result = Captured(Values(q), Values(q))
          /\ faults = FaultsOf(q)
    /\ config \in Configs
    /\ blocks = <<>>
    /\ pc = "converting"
    /\ request = [name |-> "tool", arguments |-> <<>>]
    /\ seen = [NoSeen EXCEPT !.n = 1, !.data = TRUE, !.ended = TRUE]
    /\ outcome = NoOutcome
    /\ response = NoOutcome
    /\ snapshot \in Snapshots
    /\ cwd = <<"w">>
    /\ candidate = NoCandidate
    /\ verdict = NoVerdict
    /\ IdleNotifier
    /\ IdleStartup
    /\ IdleResolve
    /\ IdleConcurrent
    /\ IdleSchema

\* one iteration of for (const [index, output] of returns.entries())
ConvertOutput ==
    /\ pc = "converting"
    /\ Len(blocks) < Len(endpoint.returns)
    /\ LET i == Len(blocks) + 1
           r == convertWith(config, endpoint.returns[i],
                            ElemAt(result.data, i), faults[i])
       IN  IF r.threw
           THEN /\ Finish(Thrown(wrapError(Err("ConversionError",
                                               <<r.message>>))))
                /\ UNCHANGED blocks
           ELSE /\ blocks' = Append(blocks, r.block)
                /\ UNCHANGED <<pc, outcome, response>>
    /\ UNCHANGED <<nvars, pvars, rvars, tvars, endpoint, request, result, seen,
                   config, faults, mvars, svars>>

\* return { content, isError: false }
ReturnContent ==
    /\ pc = "converting"
    /\ Len(blocks) = Len(endpoint.returns)
    /\ Finish(Returned([content |-> blocks, isError |-> FALSE]))
    /\ UNCHANGED <<nvars, pvars, rvars, tvars, endpoint, request, result, seen,
                   kvars, mvars, svars>>

NextConvert == ConvertOutput \/ ReturnContent

SpecConvert == InitConvert /\ [][NextConvert]_vars

\* the claim's reading: slot i fails when its conversion meets a fetch
\* error, a non-OK response or a rejected file write
Fetches(i) ==
    /\ endpoint.returns[i].component \in {"Image", "Audio"}
    /\ HasUrl(ElemAt(result.data, i))
SlotFails(i) ==
    \/ Fetches(i) /\ (faults[i].fetch # "ok" \/ faults[i].save # "ok")
    \/ config.debug /\ faults[i].trace # "ok"

(***************************************************************************)
(* C12: a failure while converting one output slot never aborts the call:  *)
(* the call returns isError = false with one block per return descriptor,  *)
(* the failing slot is a text block, and every other slot's block is what  *)
(* it is when nothing fails; in both modes, with debug on or off.          *)
(***************************************************************************)
C12_SlotFailureNeverAborts ==
    pc = "done" =>
        /\ outcome.kind = "returned"
        /\ ~outcome.isError
        /\ ~response.isError
        /\ Len(outcome.content) = Len(endpoint.returns)
        /\ \A i \in 1..Len(endpoint.returns) :
               IF SlotFails(i)
               THEN outcome.content[i].type = "text"
               ELSE outcome.content[i] =
                        convertWith(config, endpoint.returns[i],
                                    ElemAt(result.data, i), NoFault).block

(***************************************************************************)
(* C13: for a notifier with a truthy token, the last emitted progress is   *)
(* 100 if and only if the last event fed has stage complete, whatever was  *)
(* emitted before.                                                         *)
(***************************************************************************)
C13_HundredIffComplete ==
    (Truthy(token) /\ Len(emitted) > 0) =>
        (emitted[Len(emitted)] = Fin(100) <=> fed[Len(fed)] = "complete")

(***************************************************************************)
(* C14: every emitted progress value, and the stored last progress, is an  *)
(* integer in 0..100, for events with or without step data of any index    *)
(* and length.                                                             *)
(***************************************************************************)
C14_ProgressWithinTotal ==
    /\ lastProgress.k = "fin" /\ lastProgress.v \in 0..100
    /\ \A i \in 1..Len(emitted) :
           emitted[i].k = "fin" /\ emitted[i].v \in 0..100

(***************************************************************************)
(* SpecLast: one call on the part_001 snapshot of the call loop (the same  *)
(* loop as src/src/EndpointWrapper.ts), with an empty argument map         *)
(***************************************************************************)
InitLast ==
    /\ snapshot = "part_001"
    /\ cwd = <<"w">>
    /\ candidate = NoCandidate
    /\ verdict = NoVerdict
    /\ token \in CallTokens
    /\ lastProgress = Fin(0)
    /\ emitted = <<>>
    /\ fed = <<>>
    /\ IdleResolve
    /\ endpoint \in CallEndpoints
    /\ request = [name |-> "tool", arguments |-> <<>>]
    /\ pc = "ready"
    /\ result = NoResult
    /\ seen = NoSeen
    /\ outcome = NoOutcome
    /\ response = NoOutcome
    /\ Idle

SpecLast == InitLast /\ [][Next]_vars

(***************************************************************************)
(* C15: when the stream holds data events and ends without an error-stage  *)
(* status, the payload handed to result conversion is that of the last     *)
(* data event: each later data event overwrites the captured payload.      *)
(***************************************************************************)
C15_LastDataEventWins ==
    /\ (pc = "streaming" /\ seen.data) =>
           result.set /\ result.data = seen.last
    /\ (seen.ended /\ ~seen.error /\ seen.data) =>
           /\ outcome.kind = "returned"
           /\ outcome.content =
                  convertPredictResults(endpoint.returns, seen.last).content

\* two data events with different payloads, the later one an array of
\* objects only, and the call returned the later one's conversion
C15_Witness ==
    /\ seen.ended /\ ~seen.error
    /\ seen.datas >= 2
    /\ seen.prev = <<"s1">>
    /\ seen.last = <<"o1", "o1">>
    /\ outcome.kind = "returned"
    /\ outcome.content =
           convertPredictResults(endpoint.returns, <<"o1", "o1">>).content

(***************************************************************************)
(* SpecConcurrent: several handleToolCall activations whose stream         *)
(* iterations and notification awaits interleave                           *)
(***************************************************************************)
ConcurrentTokens ==
    {NoToken, [kind |-> "string", text |-> "tok"],
     [kind |-> "string", text |-> "7"], [kind |-> "number", text |-> "7"]}
ConcurrentEvents ==
    [stage : {"pending", "generating", "complete"}, queue : {FALSE},
     position : {-1}, pd : {NoProgressData}, message : {""}]

\* the status events the activations c.. have taken so far
RECURSIVE Delivered(_, _)
Delivered(cs, c) ==
    IF c > Len(cs) THEN 0 ELSE Len(cs[c].events) + Delivered(cs, c + 1)

InitConcurrent ==
    /\ notifiers = <<>>
    /\ calls = <<>>
    /\ IdleNotifier
    /\ IdleStartup
    /\ IdlePath
    /\ IdleResolve
    /\ IdleCall
    /\ IdleConvert
    /\ IdleSchema

\* call normalises request.params._meta?.progressToken and enters
\* handleToolCall: const progressNotifier = createProgressNotifier(server);
\* sent holds params.progressToken of each notification of the activation
BeginCall ==
    /\ Len(calls) < MaxConcurrent
    /\ \E tok \in ConcurrentTokens :
          LET made == createProgressNotifier(notifiers) IN
          /\ notifiers' = made.heap
          /\ calls' = Append(calls, [progressNotifier |-> made.ref,
                                     meta |-> tok,
                                     progressToken |-> normalizedToken(tok),
                                     events |-> <<>>, emitted |-> <<>>,
                                     sent |-> <<>>, running |-> TRUE])
    /\ UNCHANGED <<nvars, pvars, rvars, tvars, cvars, kvars, svars>>

\* one activation takes a status event from its stream:
\* else if (msg.type === "status" && progressToken) ... notify(msg, token)
StatusArrives ==
    /\ \E c \in 1..Len(calls) : \E st \in ConcurrentEvents :
          /\ calls[c].running
          /\ Delivered(calls, 1) < MaxDelivered
          /\ IF Truthy(calls[c].progressToken)
             THEN LET ref == calls[c].progressNotifier
                      v == createNotification(st, notifiers[ref])
                  IN  /\ notifiers' = [notifiers EXCEPT ![ref] = v]
                      /\ calls' = [calls EXCEPT
                                      ![c].events = Append(@, st),
                                      ![c].emitted = Append(@, v),
                                      ![c].sent =
                                          Append(@, calls[c].progressToken)]
             ELSE /\ calls' = [calls EXCEPT ![c].events = Append(@, st)]
                  /\ UNCHANGED notifiers
    /\ UNCHANGED <<nvars, pvars, rvars, tvars, cvars, kvars, svars>>

\* one activation's stream ends
EndCall ==
    /\ \E c \in 1..Len(calls) :
          /\ calls[c].running
          /\ calls' = [calls EXCEPT ![c].running = FALSE]
    /\ UNCHANGED <<notifiers, nvars, pvars, rvars, tvars, cvars, kvars, svars>>

NextConcurrent == BeginCall \/ StatusArrives \/ EndCall

SpecConcurrent == InitConcurrent /\ [][NextConcurrent]_vars

\* the progress values one notifier, starting at last, emits for events
\* i.. of a sequence when nothing else touches it
RECURSIVE EmittedAlone(_, _, _)
EmittedAlone(events, i, last) ==
    IF i > Len(events) THEN <<>>
    ELSE LET v == enforceMonotonic(events[i],
                                   computedProgress(events[i], last), last)
         IN  <<v>> \o EmittedAlone(events, i + 1, v)

(***************************************************************************)
(* C16: with several calls interleaved, each call's notifier starts at 0   *)
(* and the progress values emitted for a call are those the call's own     *)
(* status events produce when it runs alone.                               *)
(***************************************************************************)
C16_CallsDoNotShareProgress ==
    \A c \in 1..Len(calls) :
        calls[c].emitted =
            IF Truthy(calls[c].progressToken)
            THEN EmittedAlone(calls[c].events, 1, Fin(0))
            ELSE <<>>

\* the second call got 'pending' after the first had reached 50, and still
\* reported 15
C16_Witness ==
    /\ Len(calls) = 2
    /\ Len(calls[1].emitted) = 1 /\ calls[1].emitted[1] = Fin(50)
    /\ calls[1].running
    /\ Len(calls[2].emitted) = 1 /\ calls[2].emitted[1] = Fin(15)

(***************************************************************************)
(* C17: call submits an argument map with exactly the supplied keys; an    *)
(* argument that matches no descriptor, matches one that is not file-like, *)
(* or whose value is not a string is submitted unchanged; only string      *)
(* values of file-like parameters are replaced by an upload handle.        *)
(***************************************************************************)
C17_OnlyFileStringsReplaced ==
    \A n \in 1..Len(submitted) :
        LET sent == submitted[n].parameters IN
        /\ Len(sent) = Len(request.arguments)
        /\ \A i \in 1..Len(request.arguments) :
               /\ sent[i].key = request.arguments[i].key
               /\ IF FileArgument(i)
                  THEN /\ sent[i].value.kind = "handle"
                       /\ sent[i].value.cand = request.arguments[i].value.cand
                  ELSE sent[i].value = request.arguments[i].value

\* a submission carrying one upload handle next to a string that matched a
\* text parameter and went through as it was
C17_Witness ==
    /\ Len(submitted) = 1
    /\ Len(request.arguments) = 2
    /\ FileArgument(1)
    /\ request.arguments[2].key = "text"
    /\ ~FileArgument(2)
    /\ request.arguments[2].value.kind = "string"
    /\ submitted[1].parameters[1].value.kind = "handle"
    /\ submitted[1].parameters[2] = request.arguments[2]

(***************************************************************************)
(* SpecParameter: convertParameter applied to one parameter descriptor     *)
(***************************************************************************)
SchemaParameters ==
    {SchemaParameter(name, label, type, pytype, pydesc, component, d, ex) :
        name \in {"", "x", "history"}, label \in {"", "Label"},
        type \in {"", "string", "number", "Blob | File | Buffer"},
        pytype \in {"str", "filepath", "int", "Literal['a', 'b']"},
        pydesc \in {"", "between 0 and 10"},
        component \in {"Textbox", "Image", "Audio", "Chatbot", "File"},
        d \in BOOLEAN, ex \in {"none", "url", "path", "text"}}

InitParameter ==
    /\ revision \in Revisions
    /\ parameter \in SchemaParameters
    /\ property = NoProperty
    /\ schema = NoSchema
    /\ IdleNotifier
    /\ IdleStartup
    /\ IdlePath
    /\ IdleResolve
    /\ IdleCall
    /\ IdleConvert
    /\ IdleConcurrent

ConvertParameter ==
    /\ property = NoProperty
    /\ property' = convertParameter(revision, parameter)
    /\ UNCHANGED <<revision, parameter, schema, nvars, pvars, rvars, tvars, cvars,
                   kvars, mvars>>

NextParameter == ConvertParameter

SpecParameter == InitParameter /\ [][NextParameter]_vars

\* descriptions that begin 'Accepts:'
BeginsAccepts(description) ==
    description \in {AcceptsGeneric, AcceptsAudio, AcceptsImage,
                     AcceptsGenericName, AcceptsAudioName, AcceptsImageName}

(***************************************************************************)
(* C18: for every parameter descriptor p, isFileParameter(p) implies that  *)
(* convertParameter(p) has type 'string' and a description beginning       *)
(* 'Accepts:', whatever the declared types, on each detection route.       *)
(***************************************************************************)
C18_FileParameterSchema ==
    (property # NoProperty /\ isFileParameter(parameter)) =>
        /\ property.type = "string"
        /\ BeginsAccepts(property.description)

\* the claim's reading of the default text block: the label and ': ' (no
\* prefix for an empty label), then the value as it is when it is a string,
\* else its JSON serialization
DefaultBlock(output, value) ==
    [type |-> "text",
     text |-> (IF output.label = "" THEN <<>> ELSE <<output.label, ": ">>)
              \o (IF TypeOf(value) \in {"string", "undefined"}
                  THEN <<value>> ELSE <<"JSON.stringify", value>>),
     data |-> ""]
\* no converter is registered for the component, or the registered one
\* yields nothing
FallsBack(i) ==
    \/ endpoint.returns[i].component \notin {"Image", "Audio"}
    \/ ~HasUrl(ElemAt(result.data, i))

(***************************************************************************)
(* C19: GradioConverter.convert returns the default text block             *)
(* '<label>: <value>' whenever the component has no registered converter   *)
(* or the registered converter yields no result: for every Chatbot output  *)
(* and every Image or Audio output whose value carries no URL.             *)
(***************************************************************************)
C19_DefaultTextBlock ==
    /\ \A i \in 1..Len(blocks) :
           FallsBack(i) =>
               blocks[i] = DefaultBlock(endpoint.returns[i],
                                        ElemAt(result.data, i))
    /\ pc = "done" =>
           \A i \in 1..Len(endpoint.returns) :
               FallsBack(i) =>
                   /\ outcome.kind = "returned"
                   /\ outcome.content[i] =
                          DefaultBlock(endpoint.returns[i],
                                       ElemAt(result.data, i))

(***************************************************************************)
(* SpecSchema: convertApiToSchema applied to one endpoint                  *)
(***************************************************************************)
NamingParameters ==
    {SchemaParameter(name, label, "string", "str", "", "Textbox", d, "none") :
        name \in {"", "a", "b"}, label \in {"", "a", "L"}, d \in BOOLEAN}

InitSchema ==
    /\ revision \in Revisions
    /\ parameter = NoParameter
    /\ property = NoProperty
    /\ schema = NoSchema
    /\ endpoint \in [parameters : Seqs(NamingParameters, MaxParams),
                     returns : {<<rText>>}, designator : {Predict}]
    /\ request = NoRequest
    /\ pc = "idle"
    /\ result = NoResult
    /\ seen = NoSeen
    /\ outcome = NoOutcome
    /\ response = NoOutcome
    /\ IdleNotifier
    /\ IdleStartup
    /\ IdlePath
    /\ IdleResolve
    /\ IdleConvert
    /\ IdleConcurrent

\* toolDefinition: inputSchema: convertApiToSchema(this.endpoint)
ConvertApiToSchema ==
    /\ schema = NoSchema
    /\ Len(endpoint.parameters) > 0
    /\ schema' = convertApiToSchema(revision, endpoint)
    /\ UNCHANGED <<revision, parameter, property, nvars, pvars, rvars, tvars, cvars,
                   kvars, mvars>>

NextSchema == ConvertApiToSchema

SpecSchema == InitSchema /\ [][NextSchema]_vars

\* the claim's reading of the derived names
Nameless(i) ==
    /\ endpoint.parameters[i].parameter_name = ""
    /\ endpoint.parameters[i].label = ""
DerivedName(i) ==
    LET p == endpoint.parameters[i] IN
    IF p.parameter_name # "" THEN Named(p.parameter_name)
    ELSE IF p.label # "" THEN Named(p.label)
    ELSE Unnamed(Cardinality({j \in 1..i : Nameless(j)}))
WithoutDefault ==
    SelectSeq([i \in 1..Len(endpoint.parameters) |-> i],
              LAMBDA i : ~endpoint.parameters[i].parameter_has_default)
Keys(entries) == {entries[i].name : i \in 1..Len(entries)}

(***************************************************************************)
(* C20: convertApiToSchema names each parameter by parameter_name, else    *)
(* label, else 'Unnamed Parameter n' with n counting only the nameless     *)
(* ones; properties are assigned in declared order; required lists, in     *)
(* iteration order, exactly the derived names of the parameters without a  *)
(* default, each of them a key of properties.                              *)
(***************************************************************************)
C20_SchemaNamesAndRequired ==
    schema # NoSchema =>
        /\ schema.assigned =
               [i \in 1..Len(endpoint.parameters) |-> DerivedName(i)]
        /\ Keys(schema.properties) =
               {DerivedName(i) : i \in 1..Len(endpoint.parameters)}
        /\ schema.required =
               [k \in 1..Len(WithoutDefault) |-> DerivedName(WithoutDefault[k])]
        /\ \A k \in 1..Len(schema.required) :
               schema.required[k] \in Keys(schema.properties)

\* a nameless parameter after a labelled one is 'Unnamed Parameter 1', and
\* only the parameters without a default are required
C20_Witness ==
    /\ schema # NoSchema
    /\ Len(endpoint.parameters) = 3
    /\ endpoint.parameters[1].parameter_name = ""
    /\ endpoint.parameters[1].label = "L"
    /\ endpoint.parameters[1].parameter_has_default
    /\ Nameless(2)
    /\ schema.assigned[2] = Unnamed(1)
    /\ schema.required = <<Unnamed(1), Named("a")>>

(***************************************************************************)
(* C21: on a path of two or three segments createEndpoint fails with        *)
(* 'No valid endpoints found' exactly when the discovery response has no    *)
(* named endpoint and no unnamed endpoint with a parameter and a return;    *)
(* in every other such case it returns a bound wrapper.                     *)
(***************************************************************************)
C21_FailsOnlyWithoutCandidate ==
    (Resolved /\ WellFormed) =>
        IF Len(api.named) = 0 /\ ValidUnnamed = {}
        THEN wrapper.status = "failed" /\ wrapper.error = "NoValidEndpoint"
        ELSE wrapper.status = "bound"

(***************************************************************************)
(* SpecStartup: the initialisation loop over config.spacePaths, then       *)
(* list-tools and call-tool requests against the endpoints map             *)
(***************************************************************************)
StartupPaths ==
    {<<"o">>, <<"o", "s">>, <<"p", "s">>, <<"o", "s.x">>, <<"o", "s_x">>,
     <<"o", "s", "foo">>}
OnlyPredict == [named |-> <<"/predict">>, unnamed |-> <<>>]
OnlyFoo == [named |-> <<"/foo">>, unnamed |-> <<>>]
OnlyUnnamed ==
    [named |-> <<>>, unnamed |-> <<[parameters |-> 1, returns |-> 1]>>]
NoEndpoints == [named |-> <<>>, unnamed |-> <<>>]
StartupApis == {OnlyPredict, OnlyFoo, OnlyUnnamed, NoEndpoints}
SpacePaths ==
    {SpacePath(parts, TRUE, a) : parts \in StartupPaths, a \in StartupApis}
    \cup {SpacePath(<<"o", "s">>, FALSE, NoEndpoints)}

InitStartup ==
    /\ spacePaths \in Seqs(SpacePaths, MaxPaths)
    /\ loaded = 0
    /\ endpoints = <<>>
    /\ logged = <<>>
    /\ phase = "loading"
    /\ tools = <<>>
    /\ dispatched = NoDispatch
    /\ IdleNotifier
    /\ IdlePath
    /\ IdleResolve
    /\ IdleCall
    /\ IdleConvert
    /\ IdleConcurrent
    /\ IdleSchema

Startup == [endpoints |-> endpoints, logged |-> logged, loaded |-> loaded,
            phase |-> phase]
Started(st) ==
    /\ endpoints' = st.endpoints
    /\ logged' = st.logged
    /\ loaded' = st.loaded
    /\ phase' = st.phase

LoadSpacePath ==
    /\ phase = "loading"
    /\ loaded < Len(spacePaths)
    /\ Started(loadSpacePath(Startup, spacePaths[loaded + 1]))
    /\ UNCHANGED <<spacePaths, tools, dispatched>>
    /\ UNCHANGED <<nvars, pvars, rvars, cvars, kvars, mvars, svars>>

StartServing ==
    /\ phase = "loading"
    /\ loaded = Len(spacePaths)
    /\ Started(startServing(Startup))
    /\ UNCHANGED <<spacePaths, tools, dispatched>>
    /\ UNCHANGED <<nvars, pvars, rvars, cvars, kvars, mvars, svars>>

ListTools ==
    /\ phase = "serving"
    /\ tools' = listTools(endpoints)
    /\ UNCHANGED <<spacePaths, loaded, endpoints, logged, phase, dispatched>>
    /\ UNCHANGED <<nvars, pvars, rvars, cvars, kvars, mvars, svars>>

\* a call-tool request naming a listed tool, or an unknown one
LookupTool ==
    /\ phase = "serving"
    /\ \E name \in {tools[i] : i \in 1..Len(tools)} \cup {<<"?">>} :
          dispatched' = lookupTool(endpoints, name)
    /\ UNCHANGED <<spacePaths, loaded, endpoints, logged, phase, tools>>
    /\ UNCHANGED <<nvars, pvars, rvars, cvars, kvars, mvars, svars>>

NextStartup == LoadSpacePath \/ StartServing \/ ListTools \/ LookupTool

SpecStartup == InitStartup /\ [][NextStartup]_vars

\* the configured paths createEndpoint resolves
ResolvedPaths ==
    {i \in 1..Len(spacePaths) : createEndpointAt(spacePaths[i]).status = "bound"}
FailedBefore(n) ==
    {i \in 1..n : createEndpointAt(spacePaths[i]).status # "bound"}

C23_FirstContentEventKept ==
    (snapshot = "part_002" /\ seen.datas > 0) =>
        /\ result.set
        /\ result.raw = IF hasContent(seen.firstContent)
                        THEN seen.firstContent ELSE seen.first

(***************************************************************************)
(* C23 (amended): in the part_002 call loop every data event holding a     *)
(* non-object element replaces the captured payload, so the last such      *)
(* event is the one converted; a data event of objects only is captured    *)
(* only when nothing has been captured before, so without any event that   *)
(* has content the first data event is the one converted.                  *)
(***************************************************************************)
C23_LastContentEventKept ==
    /\ (snapshot = "part_002" /\ seen.datas > 0) =>
           /\ result.set
           /\ result.raw = IF hasContent(seen.lastContent)
                           THEN seen.lastContent ELSE seen.first
    /\ (snapshot = "part_002" /\ seen.ended /\ ~seen.error
            /\ seen.datas > 0) =>
           /\ outcome.kind = "returned"
           /\ outcome.content =
                  convertPredictResults(endpoint.returns, result.raw).content

\* two events with content and then one of objects only: the second is
\* the one the call converted
C23_Witness ==
    /\ snapshot = "part_002"
    /\ seen.ended /\ ~seen.error
    /\ seen.datas = 3
    /\ seen.firstContent = <<"s1">>
    /\ seen.lastContent = <<"n1">>
    /\ seen.last = <<"o1", "o1">>
    /\ result.raw = <<"n1">>
    /\ outcome.kind = "returned"

(***************************************************************************)
(* SpecProgress: one call on a stream of status and data events, for each  *)
(* kind of progress token a host can send                                  *)
(***************************************************************************)
ProgressTokens ==
    {NoToken, [kind |-> "string", text |-> ""],
     [kind |-> "string", text |-> "tok"], [kind |-> "number", text |-> "0"],
     [kind |-> "number", text |-> "7"]}

InitProgress ==
    InitCall(ProgressTokens,
             {[parameters |-> <<pText>>, returns |-> <<rText>>,
               designator |-> Predict]},
             {"tool"}, {<<>>})

SpecProgress == InitProgress /\ [][Next]_vars

\* the call loop received a token it treats as present: any number, or a
\* string that is not empty
Supplied == token.kind = "number" \/ (token.kind = "string" /\ token.text # "")
\* the step took a status event from the stream
TookStatus == seen'.n - seen'.datas = seen.n - seen.datas + 1

(***************************************************************************)
(* C24: in a call whose progress token is present, each status event that  *)
(* is not an error stage produces exactly one notification, computed from  *)
(* that event and appended before the next event is taken; an error-stage  *)
(* event produces none and ends the call, so nothing follows it; no other  *)
(* step emits; in a call without a token nothing is emitted and the        *)
(* notifier's lastProgress stays 0.                                        *)
(***************************************************************************)
C24_OneNotificationPerStatus ==
    /\ [](Supplied =>
            /\ Len(emitted) = seen.n - seen.datas - (IF seen.error THEN 1 ELSE 0)
            /\ seen.error => pc = "done" /\ seen.status.stage = "error")
    /\ [](~Supplied => emitted = <<>> /\ lastProgress = Fin(0))
    /\ [][IF TookStatus /\ Supplied /\ seen'.status.stage # "error"
          THEN /\ emitted' =
                     Append(emitted,
                            createNotification(seen'.status, lastProgress))
               /\ lastProgress' = emitted'[Len(emitted')]
          ELSE UNCHANGED <<emitted, lastProgress>>]_vars

\* a call with a numeric token took 'pending' and then 'generating' and
\* emitted 15 and 50, then an error stage ended it with nothing more emitted
C24_Witness ==
    /\ token = [kind |-> "number", text |-> "0"]
    /\ seen.n = 3 /\ seen.datas = 0
    /\ seen.error /\ pc = "done"
    /\ emitted = <<Fin(15), Fin(50)>>

(***************************************************************************)
(* SpecFeed: a notifier created by createProgressNotifier is handed status *)
(* events one at a time under a token; the event handed over last is kept  *)
(***************************************************************************)
FeedEvents ==
    {st \in StatusEvents : ~st.queue /\ st.position = -1 /\ st.message = ""}

InitFeed ==
    /\ lastProgress = Fin(0)
    /\ emitted = <<>>
    /\ fed = <<>>
    /\ token = [kind |-> "string", text |-> "tok"]
    /\ IdlePath
    /\ IdleResolve
    /\ endpoint = NoEndpoint
    /\ request = NoRequest
    /\ pc = "idle"
    /\ result = NoResult
    /\ seen = NoSeen
    /\ outcome = NoOutcome
    /\ response = NoOutcome
    /\ Idle

\* await progressNotifier.notify(msg, progressToken)
Feed(status) ==
    /\ Len(fed) < MaxFed
    /\ notifyWith(status, token)
    /\ seen' = [seen EXCEPT !.n = @ + 1, !.status = status]
    /\ UNCHANGED xvars
    /\ UNCHANGED <<token, pvars, rvars, endpoint, request, pc, result,
                   outcome, response>>

FeedStage == \E status \in FeedEvents : status.pd.kind = "none" /\ Feed(status)
FeedSteps == \E status \in FeedEvents : status.pd.kind # "none" /\ Feed(status)

NextFeed == FeedStage \/ FeedSteps

SpecFeed == InitFeed /\ [][NextFeed]_vars

\* r = round(10 + index / (length - 1) * 80), for length > 1: the integer
\* with x - 1/2 < r <= x + 1/2
RoundsStep(r, index, length) ==
    LET d == length - 1
        twice == 2 * (10 * d + 80 * index)
    IN  /\ 2 * d * r <= twice + d
        /\ 2 * d * r > twice - d

(***************************************************************************)
(* C25: a fresh notifier handed an event that is not 'complete' and whose  *)
(* step data has length >= 1 and 0 <= index <= length - 1 emits            *)
(* round(10 + index / (length - 1) * 80), a value in 10..90.               *)
(***************************************************************************)
C25_StepsMapOntoBand ==
    (/\ seen.n = 1
     /\ seen.status.stage # "complete"
     /\ seen.status.pd.kind = "item"
     /\ seen.status.pd.length >= 1
     /\ seen.status.pd.index \in 0..(seen.status.pd.length - 1)) =>
        /\ Len(emitted) = 1
        /\ emitted[1].k = "fin"
        /\ emitted[1].v \in 10..90
        /\ RoundsStep(emitted[1].v, seen.status.pd.index,
                      seen.status.pd.length)

(***************************************************************************)
(* C26: an error-stage event without step data, handed to a notifier       *)
(* whose last progress is any value in 0..100, emits that same value and   *)
(* leaves the stored last progress unchanged.                              *)
(***************************************************************************)
C26_ErrorStageHolds ==
    [][(/\ seen'.n = seen.n + 1
        /\ seen'.status.stage = "error"
        /\ seen'.status.pd.kind = "none"
        /\ lastProgress.k = "fin"
        /\ lastProgress.v \in 0..100) =>
           /\ emitted' = Append(emitted, lastProgress)
           /\ lastProgress' = lastProgress]_vars

(***************************************************************************)
(* C27: every progress notification of a call carries as progressToken     *)
(* the value of that call's request metadata, of the same kind (string or  *)
(* number), and never the different token of another call in progress.     *)
(***************************************************************************)
C27_TokenCarriedUnchanged ==
    \A c \in 1..Len(calls) : \A k \in 1..Len(calls[c].sent) :
        /\ calls[c].sent[k] = calls[c].meta
        /\ \A o \in 1..Len(calls) :
               (o # c /\ calls[o].running /\ calls[o].meta # calls[c].meta)
                   => calls[c].sent[k] # calls[o].meta

\* the wrappers createEndpoint returned for the configured paths
ResolvedWrappers == {createEndpointAt(spacePaths[i]) : i \in ResolvedPaths}

(***************************************************************************)
(* C28: once the server is up, list-tools returns one tool for each        *)
(* endpoint that was resolved, no two different resolved endpoints have    *)
(* the same tool name, and a call-tool request for a tool name reaches     *)
(* the wrapper that was resolved under that name.                          *)
(***************************************************************************)
C28_ResolvedEndpointsCallable ==
    phase = "serving" =>
        /\ Len(listTools(endpoints)) = Cardinality(ResolvedWrappers)
        /\ Len(tools) > 0 => Len(tools) = Cardinality(ResolvedWrappers)
        /\ \A v, w \in ResolvedWrappers : v # w => toolName(v) # toolName(w)
        /\ \A w \in ResolvedWrappers :
               dispatched.name = toolName(w) => dispatched.wrapper = w

(***************************************************************************)
(* C29: a wrapper bound to the named_endpoints key K holds the designator  *)
(* K as a string, a wrapper bound to the unnamed_endpoints key i holds the *)
(* integer i, and every submit on the wrapper passes that designator;      *)
(* this for every key, a named key made of digits only included.           *)
(***************************************************************************)
C29_DesignatorMatchesBinding ==
    wrapper.status = "bound" =>
        /\ wrapper.from = "named" =>
               wrapper.endpointPath.endpoint =
                   [kind |-> "name", name |-> wrapper.key, index |-> 0]
        /\ wrapper.from = "unnamed" =>
               \E i \in 0..Len(api.unnamed) - 1 :
                   /\ wrapper.key = IndexString(i)
                   /\ wrapper.endpointPath.endpoint =
                          [kind |-> "index", name |-> "", index |-> i]
        /\ \A k \in 1..Len(submitted) :
               submitted[k].endpoint = wrapper.endpointPath.endpoint

\* the path with one leading "/" removed, as parsePath and endpointSpecified
\* split it
Stripped ==
    IF Len(configuredPath) >= 2 /\ configuredPath[1] = ""
    THEN Tail(configuredPath) ELSE configuredPath

(***************************************************************************)
(* C30: on every path for which endpointSpecified is true, with or without *)
(* a leading '/', createEndpoint does not reject the path format, connects *)
(* to the owner and space parsePath returns and takes the endpoint segment *)
(* parsePath takes; on a two-segment path with a leading '/' it connects   *)
(* to the same owner/space as without the '/'.                             *)
(***************************************************************************)
C30_SegmentationAgrees ==
    Resolved =>
        /\ endpointSpecified(configuredPath) =>
               /\ wrapper.error # "InvalidPathFormat"
               /\ wrapper.client = <<parsePath(configuredPath).owner,
                                     parsePath(configuredPath).space>>
               /\ Stripped[3] # "" =>
                      endpointTarget(configuredPath) = WithSlash(Stripped[3])
        /\ (Len(Stripped) = 2 /\ Len(configuredPath) = 3) =>
               wrapper.client = spaceName(Stripped)

====
